---- MODULE Spec2Model ----
(***************************************************************************)
(* Lead qualification service: batch job orchestration, per-row task       *)
(* executors, response extraction, reconciliation and job store, modelled  *)
(* from src/app/main.py, src/app/schemas.py, src/app/config.py,            *)
(* src/app/services/utils.py and src/app/api/endpoints.py.                 *)
(*                                                                         *)
(* Text values.  A Python str is a sequence of chunks; a chunk is a piece  *)
(* of text that no operation of the program splits ("acme.com"), and text  *)
(* the program inspects character by character (phone numbers) has one     *)
(* chunk per character.  "" is <<>> and concatenation is \o.  Python None  *)
(* and the float nan of an empty spreadsheet cell are the reserved         *)
(* one-chunk values None and NaN, which no text contains.                  *)
(***************************************************************************)
EXTENDS Integers, Sequences, FiniteSets, TLC

(***************************************************************************)
(* Bounds of the model and constants of the program                        *)
(***************************************************************************)
\* longest uploaded sheet, in rows
MaxRows == 2
\* job ids a client can submit under or ask about
MaxJobs == 2
MaxPhoneLen == 3
MaxPieces == 2
MaxBatches == 2
\* the batch limit of upload_leads
BatchLimit == 100
\* Config.MAX_CONCURRENT_CREWS
MAX_CONCURRENT_CREWS == 1

(***************************************************************************)
(* Python values                                                           *)
(***************************************************************************)
None == <<"<None>">>
NaN == <<"<NaN>">>

\* bool(v) of a str, None or nan: nan is a non-zero float, hence true
Bool(v) == v # None /\ v # <<>>

\* str(v)
Str(v) == IF v = None THEN <<"None">> ELSE IF v = NaN THEN <<"nan">> ELSE v

\* str.lower() of one chunk: the chunks of the model that hold upper-case letters
LowerChunk(c) ==
  CASE c = "None" -> "none"
    [] c = "NONE" -> "none"
    [] c = "NaN"  -> "nan"
    [] c = "Null" -> "null"
    [] c = "Acme" -> "acme"
    [] c = "Beta" -> "beta"
    [] c = "Info@Acme.com" -> "info@acme.com"
    [] OTHER -> c

lower(s) == [i \in 1..Len(s) |-> LowerChunk(s[i])]

\* a or b
Or(a, b) == IF Bool(a) THEN a ELSE b

EmptyDict == [k \in {} |-> 0]

\* a decoded JSON value carries its type: str, int, null or obj
JStr(s) == [t |-> "str", v |-> s]
JInt(n) == [t |-> "int", v |-> n]
JNull == [t |-> "null", v |-> <<>>]
JObj(d) == [t |-> "obj", v |-> d]

\* the Python value of a decoded JSON value
Py(j) == IF j.t = "null" THEN None ELSE j.v

\* bool(v) of a decoded value
JBool(j) ==
  CASE j.t = "null" -> FALSE
    [] j.t = "int" -> j.v # 0
    [] j.t = "str" -> j.v # <<>>
    [] j.t = "obj" -> DOMAIN j.v # {}

\* d.get(k, default) as a Python value, d a decoded JSON object
GetPy(d, k, default) == IF k \in DOMAIN d THEN Py(d[k]) ELSE default

\* d.get(k, default)
Get(d, k, default) == IF k \in DOMAIN d THEN d[k] ELSE default

\* d with d[k] = v
Put(d, k, v) == [x \in (DOMAIN d) \cup {k} |-> IF x = k THEN v ELSE d[x]]

(***************************************************************************)
(* src/app/schemas.py                                                      *)
(***************************************************************************)
\* CompanyDetails(phone=, email=, website=, Other=): every field Optional[str]
CompanyDetails(phone, email, website, Other) ==
  [phone |-> phone, email |-> email, website |-> website, Other |-> Other]

DecisionMaker ==
  [name |-> <<>>, job_title |-> <<>>, mobile_number |-> <<>>,
   contact_number |-> <<>>, work_email |-> <<>>]

\* the fields LeadOutput declares
LeadFields ==
  {"brand_name", "source", "category_main_industry", "confidence_score",
   "enrichment_status", "company", "decision_maker_1", "ai_reason_to_call",
   "notes"}

SourceLiteral == {<<"social">>, <<"news">>, <<"proximity">>}

EnrichmentLiteral == {<<"enriched">>, <<"needs apollo">>}

LeadDefaults ==
  [source |-> <<"news">>, category_main_industry |-> <<>>,
   confidence_score |-> JInt(0), enrichment_status |-> <<"needs apollo">>,
   company |-> CompanyDetails(<<>>, <<>>, <<>>, <<>>),
   decision_maker_1 |-> DecisionMaker, ai_reason_to_call |-> <<>>,
   notes |-> <<>>]

\* LeadOutput(**kw).model_dump(): [ok |-> FALSE] is pydantic's ValidationError.
\* A keyword that is no declared field is ignored (pydantic's default extra
\* policy), a missing one takes its default; brand_name is required.
\* confidence_score arrives with its type and is dumped as the int it holds.
LeadOutput(kw) ==
  LET f(k) == IF k \in DOMAIN kw THEN kw[k] ELSE LeadDefaults[k]
      g(k) == IF k = "confidence_score" THEN f(k).v ELSE f(k)
      valid == /\ "brand_name" \in DOMAIN kw
               /\ kw.brand_name \notin {None, NaN}
               /\ f("source") \in SourceLiteral
               /\ f("category_main_industry") # None
               /\ f("confidence_score").t = "int"
               /\ f("confidence_score").v \in 0..100
               /\ f("enrichment_status") \in EnrichmentLiteral
               /\ f("ai_reason_to_call") # None
  IN [ok |-> valid,
      dump |-> IF valid THEN [k \in LeadFields |-> g(k)] ELSE EmptyDict]

(***************************************************************************)
(* src/app/services/utils.py (the same functions are in src/app/main.py)   *)
(***************************************************************************)
PhoneSeparators == {" ", "-", "(", ")", "+"}

\* normalize_phone(phone)
normalize_phone(phone) ==
  IF ~Bool(phone) THEN <<>>
  ELSE lower(SelectSeq(phone, LAMBDA c : c \notin PhoneSeparators))

\* a in b, for two str
IsSubstring(a, b) ==
  \E i \in 0..(Len(b) - Len(a)) : SubSeq(b, i + 1, i + Len(a)) = a

\* a phones_match that looks for the first phone in the second only
phones_match_one_way(phone1, phone2) ==
  IF ~Bool(phone1) \/ ~Bool(phone2) THEN FALSE
  ELSE IsSubstring(normalize_phone(phone1), normalize_phone(phone2))

\* phones_match(phone1, phone2)
phones_match(phone1, phone2) ==
  IF ~Bool(phone1) \/ ~Bool(phone2) THEN FALSE
  ELSE LET norm1 == normalize_phone(phone1)
           norm2 == normalize_phone(phone2)
       IN IsSubstring(norm1, norm2) \/ IsSubstring(norm2, norm1)

\* the first characters clean_excel_value guards against
FormulaStarts == {"=", "@", "+", "-"}

\* clean_excel_value(val); str.strip() drops the blank chunks at both ends
RECURSIVE lstrip(_)
lstrip(s) == IF s # <<>> /\ Head(s) = " " THEN lstrip(Tail(s)) ELSE s

RECURSIVE rstrip(_)
rstrip(s) ==
  IF s # <<>> /\ s[Len(s)] = " " THEN rstrip(SubSeq(s, 1, Len(s) - 1)) ELSE s

strip(s) == rstrip(lstrip(s))

\* a guard that knows "=" only
quote_formula_equals_only(s) == IF s # <<>> /\ Head(s) = "=" THEN <<"'">> \o s ELSE s

\* the guard on a stripped text
quote_formula(s) == IF s # <<>> /\ Head(s) \in FormulaStarts THEN <<"'">> \o s ELSE s

clean_excel_value(val) == IF val = None THEN <<>> ELSE quote_formula(strip(Str(val)))

(***************************************************************************)
(* The engine's raw output and its decoding (re.search, json.loads).       *)
(* A raw output is a sequence of tokens: "{", "}", a run of prose, a JSON  *)
(* member with a scalar value ("phone": "050"), or a member key whose      *)
(* value is the object that follows ("company": {...}).  A decoded JSON    *)
(* value carries its type: str, int, null or obj.                          *)
(***************************************************************************)
Tok(t, k, v) == [t |-> t, k |-> k, v |-> v]
LB == Tok("{", "", <<>>)
RB == Tok("}", "", <<>>)
Prose(s) == Tok("text", "", s)
Member(k, v) == Tok("member", k, v)
Key(k) == Tok("key", k, <<>>)

SetMin(S) == CHOOSE x \in S : \A y \in S : x <= y
SetMax(S) == CHOOSE x \in S : \A y \in S : y <= x

Braces(raw, b) == {i \in 1..Len(raw) : raw[i].t = b}

NoMatch == [found |-> FALSE, group |-> <<>>]

\* re.search(r'\{.*\}', raw_output, re.DOTALL): the leftmost "{" that some "}"
\* follows, and, .* being greedy, everything up to the last "}"
re_search_object(raw) ==
  LET lbs == Braces(raw, "{")
      rbs == Braces(raw, "}")
  IN IF lbs = {} \/ rbs = {} \/ SetMin(lbs) > SetMax(rbs) THEN NoMatch
     ELSE [found |-> TRUE, group |-> SubSeq(raw, SetMin(lbs), SetMax(rbs))]

\* the places of the text "confidence_score" (with its quotes: a member key)
MarkerAt(raw) ==
  {i \in 1..Len(raw) : raw[i].t \in {"member", "key"} /\ raw[i].k = "confidence_score"}

\* re.search(r'\{.*"confidence_score".*\}', raw_output, re.DOTALL)
re_search_marked(raw) ==
  LET rbs == Braces(raw, "}")
      starts == {i \in Braces(raw, "{") :
                   \E m \in MarkerAt(raw) : i < m /\ \E j \in rbs : m < j}
  IN IF starts = {} THEN NoMatch
     ELSE [found |-> TRUE, group |-> SubSeq(raw, SetMin(starts), SetMax(rbs))]

JsonError == [ok |-> FALSE, data |-> EmptyDict, next |-> 0]

\* json.loads of an object: its members from token i on, up to the first
\* token that is no member; a repeated key keeps its last value
RECURSIVE JsonMembers(_, _, _)
RECURSIVE JsonObject(_, _)
JsonMembers(toks, i, acc) ==
  IF i > Len(toks) THEN [ok |-> TRUE, data |-> acc, next |-> i]
  ELSE IF toks[i].t = "member"
       THEN JsonMembers(toks, i + 1, Put(acc, toks[i].k, toks[i].v))
  ELSE IF toks[i].t = "key"
       THEN LET o == JsonObject(toks, i + 1)
            IN IF o.ok
               THEN JsonMembers(toks, o.next, Put(acc, toks[i].k, JObj(o.data)))
               ELSE JsonError
  ELSE [ok |-> TRUE, data |-> acc, next |-> i]

JsonObject(toks, i) ==
  IF i > Len(toks) \/ toks[i].t # "{" THEN JsonError
  ELSE LET m == JsonMembers(toks, i + 1, EmptyDict)
       IN IF m.ok /\ m.next <= Len(toks) /\ toks[m.next].t = "}"
          THEN [ok |-> TRUE, data |-> m.data, next |-> m.next + 1]
          ELSE JsonError

\* json.loads(s): one object and nothing after it, else JSONDecodeError
json_loads(s) ==
  LET o == JsonObject(s, 1)
  IN IF o.ok /\ o.next = Len(s) + 1 THEN [ok |-> TRUE, data |-> o.data]
     ELSE [ok |-> FALSE, data |-> EmptyDict]

\* the text of one token
TokText(tok) ==
  CASE tok.t = "text" -> tok.v
    [] tok.t \in {"{", "}"} -> <<tok.t>>
    [] OTHER -> <<"\"" \o tok.k \o "\":">>

RECURSIVE RawText(_)
RawText(raw) == IF raw = <<>> THEN <<>> ELSE TokText(Head(raw)) \o RawText(Tail(raw))

\* s[:n], n counted in characters, cut at a chunk boundary
RECURSIVE Slice(_, _)
Slice(s, n) ==
  IF s = <<>> \/ Len(Head(s)) > n THEN <<>>
  ELSE <<Head(s)>> \o Slice(Tail(s), n - Len(Head(s)))

(***************************************************************************)
(* Contactability, shared by the three row executors                       *)
(***************************************************************************)
BoolToInt(b) == IF b THEN 1 ELSE 0

\* available_count = sum([has_website, has_email, has_phone])
available_count(website, email, phone) ==
  BoolToInt(Bool(website)) + BoolToInt(Bool(email)) + BoolToInt(Bool(phone))

\* a ladder without its middle rung
score_of_count_two_rungs(n) == IF n = 3 THEN 100 ELSE IF n >= 1 THEN 30 ELSE 0

\* the if/elif ladder from the count to the score
score_of_count(n) ==
  IF n = 3 THEN 100 ELSE IF n = 2 THEN 60 ELSE IF n = 1 THEN 30 ELSE 0

\* clean(val): the "..." and "Not Found" artifacts become ""
clean(val) == IF val = <<"...">> \/ val = <<"Not Found">> THEN <<>> ELSE val

\* str(cell).lower() in ["none", "nan", ""]
IsBlankCell(v) == lower(Str(v)) \in {<<"none">>, <<"nan">>, <<>>}

\* not brand_name or str(brand_name).lower() in ["nan", "none", "", "null"]
IsSkippedBrand(b) ==
  ~Bool(b) \/ lower(Str(b)) \in {<<"nan">>, <<"none">>, <<>>, <<"null">>}

(***************************************************************************)
(* What awaiting one row task gives                                        *)
(***************************************************************************)
Value(v) == [kind |-> "value", value |-> v]
ReturnsNone == [kind |-> "None", value |-> EmptyDict]
Raises == [kind |-> "raise", value |-> EmptyDict]

\* what one engine call does: it returns a raw output, raises, or outlasts
\* the bounded wait
Returned(raw) == [kind |-> "return", raw |-> raw, msg |-> <<>>]
Failed(msg) == [kind |-> "raise", raw |-> <<>>, msg |-> msg]
TimedOut == [kind |-> "timeout", raw |-> <<>>, msg |-> <<>>]

ValidationError == <<"1 validation error for LeadOutput">>

\* website / email / phone cell after the executors' clean up
CellOrNone(v) == IF IsBlankCell(v) THEN None ELSE v
CellOrEmpty(v) == IF IsBlankCell(v) THEN <<>> ELSE v

\* lead = LeadOutput(...); return lead.model_dump(), inside a try whose
\* handler gives on_error
DumpOr(lo, on_error) == IF lo.ok THEN Value(lo.dump) ELSE on_error

\* the same for the social executor's dict around the dump; extra holds
\* "needs_retry" and, where the code sets it, "original_row"
SocialDumpOr(lo, extra, on_error) ==
  IF lo.ok
  THEN Value([k \in {"data"} \cup DOMAIN extra |-> IF k = "data" THEN lo.dump ELSE extra[k]])
  ELSE on_error

(***************************************************************************)
(* process_row: the news pipeline's row executor (main.py 28-226), from    *)
(* the engine call on                                                      *)
(***************************************************************************)
\* the "company" of the two fallback dicts (lines 112-117, 127-132)
news_fallback_company(website) ==
  JObj([phone |-> JStr(<<>>), email |-> JStr(<<>>),
        website |-> JStr(Or(website, <<>>)), Other |-> JStr(<<>>)])

\* data when json.loads has run (lines 103, 119-133)
news_decoded(row, j) ==
  IF j.ok THEN j.data
  ELSE [category_main_industry |-> JStr(<<"Unknown">>),
        confidence_score |-> JInt(0),
        reason_to_call |-> JStr(<<"Schema validation failed">>),
        notes |-> JStr(<<"Fallback activated due to malformed AI output">>),
        company |-> news_fallback_company(CellOrNone(row.Website))]

\* data, given the regex match (lines 102-118)
news_matched(row, raw, m) ==
  IF m.found THEN news_decoded(row, json_loads(m.group))
  ELSE [category_main_industry |-> JStr(<<"Unknown">>),
        confidence_score |-> JInt(0),
        reason_to_call |-> JStr(<<"AI Output Unstructured">>),
        notes |-> JStr(Slice(RawText(raw), 500)),
        company |-> news_fallback_company(CellOrNone(row.Website))]

\* the data process_row works on (lines 92-133)
news_extract(row, raw) == news_matched(row, raw, re_search_marked(raw))

\* company_data (lines 136-138)
news_company_data(cd) == IF cd.t = "obj" THEN cd.v ELSE EmptyDict

\* the contact fields process_row takes from the data (lines 140-143)
news_contacts(website, data, company_data) ==
  CompanyDetails(
    GetPy(company_data, "phone", <<>>),
    GetPy(company_data, "email", <<>>),
    Or(Or(Or(GetPy(company_data, "website", <<>>),
             GetPy(data, "website_url", <<>>)), website), <<>>),
    GetPy(company_data, "Other", <<>>))

news_company(row, data) ==
  news_contacts(CellOrNone(row.Website), data,
                news_company_data(Get(data, "company", JObj(EmptyDict))))

\* contactibility_score of a set of contact fields (lines 150-163, 345-358)
contactibility(company) ==
  score_of_count(available_count(company.website, company.email, company.phone))

\* category (line 166)
news_category(data) ==
  Or(GetPy(data, "category_main_industry", None), GetPy(data, "industry", <<"Unknown">>))

\* lines 169-172
news_default_confidence(data) ==
  IF JBool(Get(data, "confidence_score", JNull)) THEN data
  ELSE Put(data, "confidence_score", JInt(0))

news_default_reason(data) ==
  IF JBool(Get(data, "reason_to_call", JNull)) THEN data
  ELSE Put(data, "reason_to_call", JStr(<<"Insufficient data for detailed pitch">>))

\* lines 167-172
news_defaults(data, category) ==
  IF ~Bool(category) \/ category = <<"Unknown">>
  THEN news_default_confidence(news_default_reason(data))
  ELSE data

\* the except branch of the executor (lines 199-226)
news_error_lead(brand_name, website, msg) ==
  DumpOr(LeadOutput(
           [brand_name |-> brand_name, source |-> <<"news">>,
            category_main_industry |-> <<"Error">>,
            confidence_score |-> JInt(0),
            contactibility_score |-> IF Bool(website) THEN 30 ELSE 0,
            enrichment_status |-> <<"needs apollo">>,
            company |-> CompanyDetails(<<>>, <<>>, Or(website, <<>>), <<>>),
            decision_maker_1 |-> DecisionMaker,
            ai_reason_to_call |-> <<"Processing failed - manual review needed">>,
            notes |-> <<"Error: ">> \o msg]),
         Raises)

\* the asyncio.TimeoutError branch (lines 63-89)
news_timeout_lead(brand_name, website) ==
  DumpOr(LeadOutput(
           [brand_name |-> brand_name, source |-> <<"news">>,
            category_main_industry |-> <<"Error">>,
            confidence_score |-> JInt(0),
            contactibility_score |-> IF Bool(website) THEN 30 ELSE 0,
            enrichment_status |-> <<"needs apollo">>,
            company |-> CompanyDetails(<<>>, <<>>, Or(website, <<>>), <<>>),
            decision_maker_1 |-> DecisionMaker,
            ai_reason_to_call |-> <<"Timeout - manual review">>,
            notes |-> <<"Processing took longer than 30s">>]),
         news_error_lead(brand_name, website, ValidationError))

\* lines 174-198
news_build(brand_name, website, data, category, company) ==
  DumpOr(LeadOutput(
           [brand_name |-> brand_name, source |-> <<"news">>,
            category_main_industry |-> category,
            confidence_score |-> Get(data, "confidence_score", JInt(0)),
            contactibility_score |-> contactibility(company),
            enrichment_status |-> <<"needs apollo">>,
            company |-> company,
            decision_maker_1 |-> DecisionMaker,
            ai_reason_to_call |-> GetPy(data, "reason_to_call", <<>>),
            notes |-> GetPy(data, "notes", <<>>)]),
         news_error_lead(brand_name, website, ValidationError))

\* lines 135-198
news_lead(row, data, category) ==
  news_build(row.Brand, CellOrNone(row.Website), news_defaults(data, category),
             category, news_company(row, data))

news_return(row, data) == news_lead(row, data, news_category(data))

process_row(row, outcome) ==
  CASE outcome.kind = "timeout" -> news_timeout_lead(row.Brand, CellOrNone(row.Website))
    [] outcome.kind = "raise" ->
         news_error_lead(row.Brand, CellOrNone(row.Website), outcome.msg)
    [] outcome.kind = "return" -> news_return(row, news_extract(row, outcome.raw))

(***************************************************************************)
(* process_social_row: the social pipeline's row executor (main.py         *)
(* 288-407), from the engine call on                                       *)
(***************************************************************************)
\* c_phone, c_email, c_website, c_other (lines 339-342); company is the
\* decoded "company" object
social_company(row, company) ==
  CompanyDetails(
    clean(GetPy(company, "phone", <<>>)),
    clean(GetPy(company, "email", Or(CellOrNone(row.Email), <<>>))),
    clean(GetPy(company, "website", Or(CellOrNone(row.Website), <<>>))),
    clean(GetPy(company, "Other", <<>>)))

\* a should_retry that does not look at the pass
should_retry_any_pass(is_retry, website, contactibility_score) ==
  Bool(website) /\ contactibility_score = 0

\* should_retry (lines 360-363)
should_retry(is_retry, website, contactibility_score) ==
  ~is_retry /\ Bool(website) /\ contactibility_score = 0

\* "needs_retry" of the timeout and parse-error branches (lines 322, 394)
fallback_needs_retry(is_retry, website) == ~is_retry /\ website # None

\* the outer except branch (lines 398-407)
social_error_lead(brand_name, msg) ==
  SocialDumpOr(LeadOutput(
                 [brand_name |-> brand_name, source |-> <<"social">>,
                  notes |-> <<"Error: ">> \o msg]),
               [needs_retry |-> FALSE],
               Raises)

\* the asyncio.TimeoutError branch (lines 314-323)
social_timeout_lead(brand_name, website, is_retry) ==
  SocialDumpOr(LeadOutput(
                 [brand_name |-> brand_name, source |-> <<"social">>,
                  ai_reason_to_call |-> <<"Timeout during research">>,
                  notes |-> <<"Processing exceeded time limit">>]),
               [needs_retry |-> fallback_needs_retry(is_retry, website)],
               social_error_lead(brand_name, ValidationError))

\* the inner except branch (lines 385-396)
social_parse_error(row, is_retry, raw) ==
  SocialDumpOr(LeadOutput(
                 [brand_name |-> row.Brand, source |-> <<"social">>,
                  ai_reason_to_call |-> <<"AI output parsing failed">>,
                  notes |-> <<"Raw: ">> \o Slice(RawText(raw), 200)]),
               [needs_retry |-> fallback_needs_retry(is_retry, CellOrNone(row.Website)),
                original_row |-> row],
               social_error_lead(row.Brand, ValidationError))

\* lines 365-382
social_build(row, is_retry, raw, data, company) ==
  SocialDumpOr(LeadOutput(
                 [brand_name |-> row.Brand, source |-> <<"social">>,
                  category_main_industry |->
                    clean(GetPy(data, "category_main_industry", <<"Unknown">>)),
                  confidence_score |-> Get(data, "confidence_score", JInt(0)),
                  contactibility_score |-> contactibility(company),
                  enrichment_status |-> <<"needs apollo">>,
                  company |-> company,
                  ai_reason_to_call |-> clean(GetPy(data, "ai_reason_to_call", <<>>)),
                  notes |-> clean(GetPy(data, "notes", <<>>))]),
               [needs_retry |->
                  should_retry(is_retry, CellOrNone(row.Website), contactibility(company)),
                original_row |-> row],
               social_parse_error(row, is_retry, raw))

\* lines 339-382; data.get("company", {}).get raises when "company" is no object
social_lead(row, is_retry, raw, data, cd) ==
  IF cd.t # "obj" THEN social_parse_error(row, is_retry, raw)
  ELSE social_build(row, is_retry, raw, data, social_company(row, cd.v))

\* lines 333-384, json.loads having run
social_decoded(row, is_retry, raw, j) ==
  IF ~j.ok THEN social_parse_error(row, is_retry, raw)
  ELSE social_lead(row, is_retry, raw, j.data, Get(j.data, "company", JObj(EmptyDict)))

\* lines 330-384, given the regex match
social_matched(row, is_retry, raw, m) ==
  IF ~m.found THEN social_parse_error(row, is_retry, raw)
  ELSE social_decoded(row, is_retry, raw, json_loads(m.group))

process_social_row(row, is_retry, outcome) ==
  CASE outcome.kind = "timeout" ->
         social_timeout_lead(row.Brand, CellOrNone(row.Website), is_retry)
    [] outcome.kind = "raise" -> social_error_lead(row.Brand, outcome.msg)
    [] outcome.kind = "return" ->
         social_matched(row, is_retry, outcome.raw, re_search_object(outcome.raw))

(***************************************************************************)
(* process_business_row: the business pipeline's row executor (main.py     *)
(* 426-575), from the engine call on                                       *)
(***************************************************************************)
\* a phone validation that keeps the input on a mismatch
reconcile_phone_keep_input(input_phone, fetched_phone) ==
  IF Bool(input_phone) THEN [final |-> input_phone, penalty |-> 0]
  ELSE [final |-> fetched_phone, penalty |-> 0]

\* phone validation (lines 487-503): [final |-> final_phone, penalty |-> 0 or 10]
reconcile_phone(input_phone, fetched_phone) ==
  IF Bool(input_phone) /\ Bool(fetched_phone)
  THEN IF phones_match(input_phone, fetched_phone)
       THEN [final |-> fetched_phone, penalty |-> 0]
       ELSE [final |-> input_phone \o <<",", " ">> \o fetched_phone, penalty |-> 10]
  ELSE IF Bool(input_phone) /\ ~Bool(fetched_phone)
       THEN [final |-> input_phone, penalty |-> 0]
  ELSE [final |-> fetched_phone, penalty |-> 0]

\* an email validation that compares the emails as they are
reconcile_email_verbatim(input_email, fetched_email) ==
  IF Bool(input_email) /\ Bool(fetched_email)
  THEN IF input_email = fetched_email
       THEN [final |-> fetched_email, penalty |-> 0]
       ELSE [final |-> input_email \o <<",", " ">> \o fetched_email, penalty |-> 10]
  ELSE IF Bool(input_email) /\ ~Bool(fetched_email)
       THEN [final |-> input_email, penalty |-> 0]
  ELSE [final |-> fetched_email, penalty |-> 0]

\* email validation (lines 505-517)
reconcile_email(input_email, fetched_email) ==
  IF Bool(input_email) /\ Bool(fetched_email)
  THEN IF strip(lower(input_email)) = strip(lower(fetched_email))
       THEN [final |-> fetched_email, penalty |-> 0]
       ELSE [final |-> input_email \o <<",", " ">> \o fetched_email, penalty |-> 10]
  ELSE IF Bool(input_email) /\ ~Bool(fetched_email)
       THEN [final |-> input_email, penalty |-> 0]
  ELSE [final |-> fetched_email, penalty |-> 0]

\* fetched_website (line 483)
business_website(website, data, company) ==
  clean(Or(Or(Or(GetPy(company, "website", <<>>),
                 GetPy(data, "official_website", <<>>)), website), <<>>))

\* a final score that adds the penalty
final_contactibility_score_added(base_score, penalty) == base_score + penalty

\* final_contactibility_score = max(0, base_score - penalty) (line 536)
final_contactibility_score(base_score, penalty) ==
  IF base_score - penalty > 0 THEN base_score - penalty ELSE 0

\* a scoring that also charges 10 for a phone and 10 for an email that the
\* reconciled result lacks
business_score_charge_absent(p, e, fetched_website, fetched_other) ==
  [company |-> CompanyDetails(p.final, e.final, fetched_website, fetched_other),
   penalty |-> p.penalty + e.penalty
               + (IF p.final = <<>> THEN 10 ELSE 0) + (IF e.final = <<>> THEN 10 ELSE 0),
   base_score |-> score_of_count(available_count(fetched_website, e.final, p.final)),
   final_contactibility_score |->
     final_contactibility_score(
       score_of_count(available_count(fetched_website, e.final, p.final)),
       p.penalty + e.penalty
       + (IF p.final = <<>> THEN 10 ELSE 0) + (IF e.final = <<>> THEN 10 ELSE 0))]

\* lines 519-536, the fields reconciled
business_score(p, e, fetched_website, fetched_other) ==
  [company |-> CompanyDetails(p.final, e.final, fetched_website, fetched_other),
   penalty |-> p.penalty + e.penalty,
   base_score |-> score_of_count(available_count(fetched_website, e.final, p.final)),
   final_contactibility_score |->
     final_contactibility_score(
       score_of_count(available_count(fetched_website, e.final, p.final)),
       p.penalty + e.penalty)]

\* lines 479-536: the reconciled contact fields and the final score;
\* company is the decoded "company" object
business_reconcile(row, data, company) ==
  business_score(
    reconcile_phone(CellOrEmpty(row.Contact), clean(GetPy(company, "phone", <<>>))),
    reconcile_email(CellOrEmpty(row.Email), clean(GetPy(company, "email", <<>>))),
    business_website(CellOrNone(row.Website), data, company),
    clean(GetPy(company, "Other", <<>>)))

\* the outer except branch (lines 569-575)
business_error_lead(brand_name, msg) ==
  DumpOr(LeadOutput(
           [brand_name |-> brand_name, source |-> <<"business">>,
            notes |-> <<"Error: ">> \o msg]),
         Raises)

\* the asyncio.TimeoutError branch (lines 455-463)
business_timeout_lead(brand_name, website) ==
  DumpOr(LeadOutput(
           [brand_name |-> brand_name, source |-> <<"business">>,
            contactibility_score |-> IF Bool(website) THEN 30 ELSE 0,
            ai_reason_to_call |-> <<"Timeout during research">>,
            notes |-> <<"Processing exceeded time limit">>]),
         business_error_lead(brand_name, ValidationError))

\* the inner except branch (lines 560-567)
business_parse_error(brand_name, raw) ==
  DumpOr(LeadOutput(
           [brand_name |-> brand_name, source |-> <<"business">>,
            ai_reason_to_call |-> <<"AI output parsing failed">>,
            notes |-> <<"Raw: ">> \o Slice(RawText(raw), 200)]),
         business_error_lead(brand_name, ValidationError))

\* lines 540-557
business_build(brand_name, raw, data, r) ==
  DumpOr(LeadOutput(
           [brand_name |-> brand_name, source |-> <<"business">>,
            category_main_industry |-> GetPy(data, "category_main_industry", <<"Unknown">>),
            confidence_score |-> Get(data, "confidence_score", JInt(0)),
            contactibility_score |-> r.final_contactibility_score,
            enrichment_status |-> <<"needs apollo">>,
            company |-> r.company,
            ai_reason_to_call |-> GetPy(data, "ai_reason_to_call", <<>>),
            notes |-> GetPy(data, "notes", <<>>)]),
         business_parse_error(brand_name, raw))

\* lines 479-557; company_data.get raises when "company" is no object
business_lead(row, raw, data, cd) ==
  IF cd.t # "obj" THEN business_parse_error(row.Brand, raw)
  ELSE business_build(row.Brand, raw, data, business_reconcile(row, data, cd.v))

business_decoded(row, raw, j) ==
  IF ~j.ok THEN business_parse_error(row.Brand, raw)
  ELSE business_lead(row, raw, j.data, Get(j.data, "company", JObj(EmptyDict)))

business_matched(row, raw, m) ==
  IF ~m.found THEN business_parse_error(row.Brand, raw)
  ELSE business_decoded(row, raw, json_loads(m.group))

process_business_row(row, outcome) ==
  CASE outcome.kind = "timeout" -> business_timeout_lead(row.Brand, CellOrNone(row.Website))
    [] outcome.kind = "raise" -> business_error_lead(row.Brand, outcome.msg)
    [] outcome.kind = "return" ->
         business_matched(row, outcome.raw, re_search_object(outcome.raw))

(***************************************************************************)
(* Sheets, engine outputs                                                  *)
(***************************************************************************)
Variants == {"news", "social", "business"}

Phone050 == <<"0", "5", "0", "1">>
Phone971 == <<"+", "9", "7", "1", "-", "5", "0", "1">>

\* one row of an uploaded sheet; Brand is the identity column ("Business
\* Name" in the news pipeline, "Brand" in the others)
Row(brand, website, email, contact) ==
  [Brand |-> brand, Website |-> website, Email |-> email, Contact |-> contact]

AcmeRow == Row(<<"Acme">>, <<"acme.com">>, NaN, Phone971)
AcmeBare == Row(<<"Acme">>, NaN, <<"sales@acme.com">>, NaN)
BetaRow == Row(<<"Beta">>, <<"beta.io">>, NaN, NaN)
NoneTextRow == Row(<<"None">>, <<"none.example">>, NaN, NaN)
BlankRow == Row(NaN, NaN, NaN, NaN)

RowMenu == {AcmeRow, AcmeBare, BetaRow, NoneTextRow, BlankRow}

Sheets(menu) == UNION {[1..n -> menu] : n \in 0..MaxRows}

Uploads == [variant : Variants, rows : Sheets(RowMenu)]

\* a refusal in prose
RawRefusal == <<Prose(<<"I cannot comply">>)>>

\* a complete answer
RawFull ==
  <<LB, Member("category_main_industry", JStr(<<"Retail">>)),
    Member("confidence_score", JInt(80)),
    Member("notes", JStr(<<" ", "=", "SUM(A1)">>)),
    Key("company"), LB, Member("phone", JStr(Phone971)),
    Member("email", JStr(<<"info@acme.com">>)),
    Member("website", JStr(<<"acme.com">>)), RB, RB>>

\* an answer whose contact fields are all empty or placeholders
RawEmpty ==
  <<Prose(<<"Final answer:">>), LB, Member("confidence_score", JInt(10)),
    Key("company"), LB, Member("phone", JStr(<<>>)),
    Member("email", JStr(<<"...">>)),
    Member("website", JStr(<<"Not Found">>)), RB, RB>>

\* an answer whose confidence is out of the schema's range
RawOverconfident ==
  <<LB, Member("category_main_industry", JStr(<<"Retail">>)),
    Member("confidence_score", JInt(150)), RB>>

\* an answer whose phone is null
RawNullPhone ==
  <<LB, Member("category_main_industry", JStr(<<"Retail">>)),
    Member("confidence_score", JInt(80)),
    Key("company"), LB, Member("phone", JNull),
    Member("email", JStr(<<"info@acme.com">>)), RB, RB>>

RawOutputs == {RawRefusal, RawFull, RawEmpty, RawOverconfident, RawNullPhone}

\* how an engine call that is not abandoned ends
Outcomes == {Returned(raw) : raw \in RawOutputs} \cup {Failed(<<"connection refused">>)}

(***************************************************************************)
(* DataFrame operations of the orchestrators                               *)
(***************************************************************************)
\* df.dropna(subset=[identity column])
dropna(rows) == SelectSeq(rows, LAMBDA r : r.Brand \notin {NaN, None})

\* a drop_duplicates that keeps every row
drop_duplicates_keep_all(rows) == rows

\* a drop_duplicates that keeps the last row of a brand
RECURSIVE drop_duplicates_keep_last(_)
drop_duplicates_keep_last(rows) ==
  IF rows = <<>> THEN <<>>
  ELSE LET rest == drop_duplicates_keep_last(Tail(rows))
       IN IF \E i \in 1..Len(rest) : rest[i].Brand = Head(rows).Brand THEN rest
          ELSE <<Head(rows)>> \o rest

\* df.drop_duplicates(subset=[identity column], keep='first')
RECURSIVE drop_duplicates(_)
drop_duplicates(rows) ==
  IF rows = <<>> THEN <<>>
  ELSE LET init == drop_duplicates(SubSeq(rows, 1, Len(rows) - 1))
           last == rows[Len(rows)]
       IN IF \E i \in 1..Len(init) : init[i].Brand = last.Brand THEN init
          ELSE Append(init, last)

\* score items that leave out the score the lead does not hold
flat_scores_populated(r, variant) ==
  <<<<"confidence_score", JInt(r["confidence_score"])>>>> \o
  (IF "contactibility_score" \in DOMAIN r
   THEN <<<<"contactibility_score", JInt(r["contactibility_score"])>>>>
   ELSE <<>>)

\* flat["confidence_score"], flat["contactibility_score"] (main.py 257-258,
\* 617-618, 684-685): an int, or None when the lead holds no such key and
\* the .get has no default
flat_scores(r, variant) ==
  <<<<"confidence_score", JInt(r["confidence_score"])>>,
    <<"contactibility_score",
      IF "contactibility_score" \in DOMAIN r THEN JInt(r["contactibility_score"])
      ELSE IF variant = "business" THEN JInt(0) ELSE JNull>>>>

\* flat, as the list of its items in the order the keys are set (main.py
\* 253-279, 613-639, 680-698)
flat_items(r, variant) ==
  <<<<"brand_name", clean_excel_value(r["brand_name"])>>,
    <<"source", clean_excel_value(r["source"])>>,
    <<"category_main_industry", clean_excel_value(r["category_main_industry"])>>>>
  \o flat_scores(r, variant) \o
  <<<<"enrichment_status", clean_excel_value(r["enrichment_status"])>>,
    <<"company_phone", clean_excel_value(r["company"].phone)>>,
    <<"company_email", clean_excel_value(r["company"].email)>>,
    <<"company_website", clean_excel_value(r["company"].website)>>,
    <<"company_other", clean_excel_value(r["company"].Other)>>,
    <<"dm_name", clean_excel_value(r["decision_maker_1"].name)>>,
    <<"dm_job_title", clean_excel_value(r["decision_maker_1"].job_title)>>,
    <<"dm_mobile", clean_excel_value(r["decision_maker_1"].mobile_number)>>,
    <<"dm_contact", clean_excel_value(r["decision_maker_1"].contact_number)>>,
    <<"dm_email", clean_excel_value(r["decision_maker_1"].work_email)>>,
    <<"ai_reason_to_call", clean_excel_value(r["ai_reason_to_call"])>>,
    <<"notes", clean_excel_value(r["notes"])>>>>

\* the keys of a dict given as its items, in insertion order
keys(items) == [i \in DOMAIN items |-> items[i][1]]

\* the dict of a list of items
dict(items) ==
  [k \in {items[i][1] : i \in DOMAIN items} |->
     items[CHOOSE i \in DOMAIN items : items[i][1] = k][2]]

\* one flattened row
flatten(r, variant) == dict(flat_items(r, variant))

\* a file name made from the pipeline alone
output_filename_shared(variant, job_id) ==
  [prefix |-> CASE variant = "news" -> "processed_"
                [] variant = "social" -> "social_processed_"
                [] variant = "business" -> "business_processed_",
   job_id |-> 0]

\* output_filename: "processed_", "social_processed_" or "business_processed_"
\* followed by the job id and ".csv"
output_filename(variant, job_id) ==
  [prefix |-> CASE variant = "news" -> "processed_"
                [] variant = "social" -> "social_processed_"
                [] variant = "business" -> "business_processed_",
   job_id |-> job_id]

(***************************************************************************)
(* State                                                                   *)
(***************************************************************************)
VARIABLES
  jobs,           \* the job store: job id -> [status] or [status, output_file]
  upload,         \* job id -> the sheet handed to its background task
  opc,            \* job id -> where its orchestrator stands
  tasks,          \* job id -> pass -> the row tasks of that pass
  final_results,  \* job id -> final_results of its orchestrator
  permits,        \* free slots of concurrency_limit
  kickoffs,       \* job id -> the engine calls started, as (brand, is_retry) counts
  orphans,        \* engine calls abandoned by a timeout and still running
  files,          \* the artifacts on disk: file name -> flattened rows
  resp,           \* the response to the latest status or download request
  call            \* one call of a function of the executors: its inputs and result

vars ==
  <<jobs, upload, opc, tasks, final_results, permits, kickoffs, orphans, files, resp, call>>

JobIds == 1..MaxJobs

NoUpload == [variant |-> "none", rows |-> <<>>]
NoResp == [op |-> "none", job_id |-> 0, code |-> 0, body |-> <<>>]
NoCall == [fn |-> "none"]
Pending == [kind |-> "pending", value |-> EmptyDict]

\* no engine call of the task has ended
NoOutcome == [kind |-> "none", raw |-> <<>>, msg |-> <<>>]

\* a row task of a gather: its row, its pass, where it stands, how its engine
\* call ended and what the executor gave back
NewTask(row, is_retry) ==
  [row |-> row, is_retry |-> is_retry, pc |-> "waiting", outcome |-> NoOutcome,
   result |-> Pending]

\* the app as constructed: no job, every slot free
Idle ==
  /\ jobs = EmptyDict
  /\ upload = [j \in JobIds |-> NoUpload]
  /\ opc = [j \in JobIds |-> "unsubmitted"]
  /\ tasks = [j \in JobIds |-> [first |-> <<>>, retry |-> <<>>]]
  /\ final_results = [j \in JobIds |-> <<>>]
  /\ permits = MAX_CONCURRENT_CREWS
  /\ kickoffs = [j \in JobIds |-> EmptyDict]
  /\ orphans = 0
  /\ files = EmptyDict
  /\ resp = NoResp

Init == Idle /\ call = NoCall

(***************************************************************************)
(* Submission (endpoints.py 23-82, main.py 647-749)                        *)
(***************************************************************************)
\* a submission under a job id that is in the store already
SubmitAgain(j, up) ==
  /\ jobs' = Put(jobs, j, [status |-> "queued"])
  /\ upload' = [upload EXCEPT ![j] = up]
  /\ opc' = [opc EXCEPT ![j] = "queued"]
  /\ UNCHANGED call
  /\ resp' = [op |-> "submit", job_id |-> j, code |-> 200, body |-> <<Len(up.rows)>>]
  /\ UNCHANGED <<tasks, final_results, permits, kickoffs, orphans, files>>

\* a submission that counts the rows the pipeline will work on
SubmitCountingKept(j, up) ==
  /\ j \notin DOMAIN jobs
  /\ jobs' = Put(jobs, j, [status |-> "queued"])
  /\ upload' = [upload EXCEPT ![j] = up]
  /\ opc' = [opc EXCEPT ![j] = "queued"]
  /\ UNCHANGED call
  /\ resp' = [op |-> "submit", job_id |-> j, code |-> 200,
              body |-> <<Len(drop_duplicates(dropna(up.rows)))>>]
  /\ UNCHANGED <<tasks, final_results, permits, kickoffs, orphans, files>>

\* analyze_leads / analyze_social_leads / analyze_business_leads_post, the
\* sheet parsed: a fresh uuid4 job id, the entry, the background task
Submit(j, up) ==
  /\ j \notin DOMAIN jobs
  /\ jobs' = Put(jobs, j, [status |-> "queued"])
  /\ upload' = [upload EXCEPT ![j] = up]
  /\ opc' = [opc EXCEPT ![j] = "queued"]
  /\ UNCHANGED call
  /\ resp' = [op |-> "submit", job_id |-> j, code |-> 200, body |-> <<Len(up.rows)>>]
  /\ UNCHANGED <<tasks, final_results, permits, kickoffs, orphans, files>>

(***************************************************************************)
(* Orchestrators: process_excel_background (228-286),                      *)
(* process_social_excel_background (577-645),                              *)
(* process_business_excel_background (662-705)                             *)
(***************************************************************************)
\* up to the first gather: status running, dropna, drop_duplicates, one task
\* per remaining row
StartBackground(j) ==
  /\ opc[j] = "queued"
  /\ jobs' = [jobs EXCEPT ![j] = [status |-> "running"]]
  /\ LET df == drop_duplicates(dropna(upload[j].rows))
     IN tasks' = [tasks EXCEPT ![j].first = [i \in 1..Len(df) |-> NewTask(df[i], FALSE)]]
  /\ opc' = [opc EXCEPT ![j] = "first_pass"]
  /\ UNCHANGED call
  /\ resp' = NoResp
  /\ UNCHANGED <<upload, final_results, permits, kickoffs, orphans, files>>

\* the row executor of a pipeline, from its engine call on
RowExecutor(variant, row, is_retry, outcome) ==
  CASE variant = "news" -> process_row(row, outcome)
    [] variant = "social" -> process_social_row(row, is_retry, outcome)
    [] variant = "business" -> process_business_row(row, outcome)

Passes == {"first", "retry"}

TaskAt(j, p, i) == tasks[j][p][i]

\* the order in which the row tasks finish, kept where a run starts with a log
\* of it (a history of the run, nothing the code holds)
Finishes(c, j, p, i) ==
  IF c.fn = "gather" THEN [c EXCEPT !.ended = Append(@, <<j, p, i>>)] ELSE c

\* async with concurrency_limit, then the brand check returns None: the slot
\* is taken and given back without a suspension point in between
TaskSkips(j, p, i) ==
  /\ i \in DOMAIN tasks[j][p]
  /\ TaskAt(j, p, i).pc = "waiting"
  /\ permits > 0
  /\ IsSkippedBrand(TaskAt(j, p, i).row.Brand)
  /\ tasks' = [tasks EXCEPT ![j][p][i].pc = "done", ![j][p][i].result = ReturnsNone]
  /\ call' = Finishes(call, j, p, i)
  /\ resp' = NoResp
  /\ UNCHANGED <<jobs, upload, opc, final_results, permits, kickoffs, orphans, files>>

Count(bag, k) == IF k \in DOMAIN bag THEN bag[k] ELSE 0

\* a kickoff that does not wait for a free slot
TaskKickoffUngated(j, p, i) ==
  /\ i \in DOMAIN tasks[j][p]
  /\ TaskAt(j, p, i).pc = "waiting"
  /\ ~IsSkippedBrand(TaskAt(j, p, i).row.Brand)
  /\ permits' = permits - 1
  /\ tasks' = [tasks EXCEPT ![j][p][i].pc = "engine"]
  /\ LET k == <<TaskAt(j, p, i).row.Brand, TaskAt(j, p, i).is_retry>>
     IN kickoffs' = [kickoffs EXCEPT ![j] = Put(@, k, Count(@, k) + 1)]
  /\ UNCHANGED call
  /\ resp' = NoResp
  /\ UNCHANGED <<jobs, upload, opc, final_results, orphans, files>>

\* async with concurrency_limit, the brand check passes, the crew is built and
\* asyncio.to_thread(crew.kickoff) is started under asyncio.wait_for
TaskKickoff(j, p, i) ==
  /\ i \in DOMAIN tasks[j][p]
  /\ TaskAt(j, p, i).pc = "waiting"
  /\ permits > 0
  /\ ~IsSkippedBrand(TaskAt(j, p, i).row.Brand)
  /\ permits' = permits - 1
  /\ tasks' = [tasks EXCEPT ![j][p][i].pc = "engine"]
  /\ LET k == <<TaskAt(j, p, i).row.Brand, TaskAt(j, p, i).is_retry>>
     IN kickoffs' = [kickoffs EXCEPT ![j] = Put(@, k, Count(@, k) + 1)]
  /\ UNCHANGED call
  /\ resp' = NoResp
  /\ UNCHANGED <<jobs, upload, opc, final_results, orphans, files>>

\* the engine call ends within the wait: the rest of the executor runs and
\* the slot is released on the way out
TaskReturns(j, p, i, outcome) ==
  /\ i \in DOMAIN tasks[j][p]
  /\ TaskAt(j, p, i).pc = "engine"
  /\ tasks' = [tasks EXCEPT
       ![j][p][i].pc = "done",
       ![j][p][i].outcome = outcome,
       ![j][p][i].result =
         RowExecutor(upload[j].variant, TaskAt(j, p, i).row, TaskAt(j, p, i).is_retry, outcome)]
  /\ permits' = permits + 1
  /\ call' = Finishes(call, j, p, i)
  /\ resp' = NoResp
  /\ UNCHANGED <<jobs, upload, opc, final_results, kickoffs, orphans, files>>

\* asyncio.TimeoutError: the wait is abandoned, the thread keeps running
TaskTimesOut(j, p, i) ==
  /\ i \in DOMAIN tasks[j][p]
  /\ TaskAt(j, p, i).pc = "engine"
  /\ tasks' = [tasks EXCEPT
       ![j][p][i].pc = "done",
       ![j][p][i].outcome = TimedOut,
       ![j][p][i].result =
         RowExecutor(upload[j].variant, TaskAt(j, p, i).row, TaskAt(j, p, i).is_retry, TimedOut)]
  /\ permits' = permits + 1
  /\ orphans' = orphans + 1
  /\ call' = Finishes(call, j, p, i)
  /\ resp' = NoResp
  /\ UNCHANGED <<jobs, upload, opc, final_results, kickoffs, files>>

\* an abandoned engine call ends in its thread; nobody awaits its result
OrphanEnds ==
  /\ orphans > 0
  /\ orphans' = orphans - 1
  /\ UNCHANGED call
  /\ resp' = NoResp
  /\ UNCHANGED <<jobs, upload, opc, tasks, final_results, permits, kickoffs, files>>

\* the pass an orchestrator is awaiting
AwaitedPass(j) == IF opc[j] = "retry_pass" THEN "retry" ELSE "first"

\* where a task stands in the order the tasks finished (0: not in the log)
EndedAt(j, p, i) ==
  IF call.fn = "gather" /\ \E n \in DOMAIN call.ended : call.ended[n] = <<j, p, i>>
  THEN CHOOSE n \in DOMAIN call.ended : call.ended[n] = <<j, p, i>>
  ELSE 0

\* the results of a pass as asyncio.as_completed would hand them over: in the
\* order the tasks finished
as_completed(j, p) ==
  [k \in 1..Len(tasks[j][p]) |->
     tasks[j][p][CHOOSE i \in DOMAIN tasks[j][p] :
                   Cardinality({h \in DOMAIN tasks[j][p] :
                                  EndedAt(j, p, h) <= EndedAt(j, p, i)}) = k].result]

\* results = await asyncio.gather(*tasks): the results in the order of the
\* tasks handed to gather, whatever the order they finished in
Results(j, p) == [i \in DOMAIN tasks[j][p] |-> tasks[j][p][i].result]

AllDone(j, p) ==
  \A i \in DOMAIN tasks[j][p] :
    tasks[j][p][i].pc = "done" /\ tasks[j][p][i].result.kind # "raise"

\* asyncio.gather(*tasks) without return_exceptions: the first exception of a
\* task is raised in the orchestrator, which has no handler; the status stays
GatherRaises(j) ==
  /\ opc[j] \in {"first_pass", "retry_pass"}
  /\ \E i \in DOMAIN tasks[j][AwaitedPass(j)] :
       tasks[j][AwaitedPass(j)][i].result.kind = "raise"
  /\ opc' = [opc EXCEPT ![j] = "crashed_row"]
  /\ UNCHANGED call
  /\ resp' = NoResp
  /\ UNCHANGED <<jobs, upload, tasks, final_results, permits, kickoffs, orphans, files>>

\* the values among the results of a gather (the None results are skipped)
Values(results) ==
  LET kept == SelectSeq(results, LAMBDA r : r.kind = "value")
  IN [i \in 1..Len(kept) |-> kept[i].value]

\* the loop over the first-pass results (main.py 591-601): final_results, the
\* rows to retry, and whether res["original_row"] raised KeyError
partition(results) ==
  LET vals == Values(results)
      flagged == SelectSeq(vals, LAMBDA v : v.needs_retry)
      kept == SelectSeq(vals, LAMBDA v : ~v.needs_retry)
      keyerror == \E i \in 1..Len(flagged) : "original_row" \notin DOMAIN flagged[i]
  IN [keyerror |-> keyerror,
      final_results |-> [i \in 1..Len(kept) |-> kept[i].data],
      retry_rows |-> IF keyerror THEN <<>>
                     ELSE [i \in 1..Len(flagged) |-> flagged[i].original_row]]

\* a merge that keeps a retry lead only when its contact fields score
merge_retry_scored(final, retry_results) ==
  LET vals == SelectSeq(Values(retry_results),
                        LAMBDA v : contactibility(v.data["company"]) > 0)
  IN final \o [i \in 1..Len(vals) |-> vals[i].data]

\* the loop over the retry results (main.py 606-609)
merge_retry(final, retry_results) ==
  LET vals == Values(retry_results)
  IN final \o [i \in 1..Len(vals) |-> vals[i].data]

\* a persist that is suspended between its two writes to the job entry: the
\* status is there and the output_file is not
Persist_suspended(j, leads, written) ==
  LET variant == upload[j].variant
      f == output_filename(variant, j)
  IN /\ final_results' = [final_results EXCEPT ![j] = leads]
     /\ IF written
        THEN /\ files' = Put(files, f, [i \in 1..Len(leads) |-> flatten(leads[i], variant)])
             /\ jobs' = [jobs EXCEPT ![j] = [status |-> "completed"]]
             /\ opc' = [opc EXCEPT ![j] = "done"]
        ELSE /\ opc' = [opc EXCEPT ![j] = "crashed_persist"]
             /\ UNCHANGED <<files, jobs>>

\* flatten, to_csv, output_file and status (main.py 251-286, 611-645, 677-705);
\* written is whether to_csv succeeds: when it raises, the orchestrator ends
\* there, as it has no handler
\* the two writes to the job entry (status then output_file at 285-286, the
\* other way round at 644-645 and 704-705) have no await between them, so no
\* request handler runs between them: they are one step
Persist(j, leads, written) ==
  LET variant == upload[j].variant
      f == output_filename(variant, j)
  IN /\ final_results' = [final_results EXCEPT ![j] = leads]
     /\ IF written
        THEN /\ files' = Put(files, f, [i \in 1..Len(leads) |-> flatten(leads[i], variant)])
             /\ jobs' = [jobs EXCEPT ![j] = [status |-> "completed", output_file |-> f]]
             /\ opc' = [opc EXCEPT ![j] = "done"]
        ELSE /\ opc' = [opc EXCEPT ![j] = "crashed_persist"]
             /\ UNCHANGED <<files, jobs>>

\* the first gather has returned: the social orchestrator partitions the
\* results and either launches the retry pass or persists; the others persist
CollectFirst(j) ==
  /\ opc[j] = "first_pass"
  /\ AllDone(j, "first")
  /\ UNCHANGED call
  /\ resp' = NoResp
  /\ UNCHANGED <<upload, permits, kickoffs, orphans>>
  /\ IF upload[j].variant = "social"
     THEN LET part == partition(Results(j, "first"))
          IN IF part.keyerror
             THEN /\ opc' = [opc EXCEPT ![j] = "crashed_keyerror"]
                  /\ UNCHANGED <<jobs, tasks, final_results, files>>
             ELSE IF part.retry_rows # <<>>
             THEN /\ tasks' = [tasks EXCEPT ![j].retry =
                         [i \in 1..Len(part.retry_rows) |-> NewTask(part.retry_rows[i], TRUE)]]
                  /\ final_results' = [final_results EXCEPT ![j] = part.final_results]
                  /\ opc' = [opc EXCEPT ![j] = "retry_pass"]
                  /\ UNCHANGED <<jobs, files>>
             ELSE /\ \E written \in BOOLEAN : Persist(j, part.final_results, written)
                  /\ UNCHANGED tasks
     ELSE /\ \E written \in BOOLEAN : Persist(j, Values(Results(j, "first")), written)
          /\ UNCHANGED tasks

\* the retry gather has returned: merge and persist
CollectRetry(j) ==
  /\ opc[j] = "retry_pass"
  /\ AllDone(j, "retry")
  /\ UNCHANGED call
  /\ resp' = NoResp
  /\ \E written \in BOOLEAN :
       Persist(j, merge_retry(final_results[j], Results(j, "retry")), written)
  /\ UNCHANGED <<upload, tasks, permits, kickoffs, orphans>>

(***************************************************************************)
(* Status and download (endpoints.py 85-119)                               *)
(***************************************************************************)
\* get_status(job_id)
GetStatus(j) ==
  /\ UNCHANGED call
  /\ resp' = IF j \notin DOMAIN jobs
             THEN [op |-> "status", job_id |-> j, code |-> 404, body |-> <<>>]
             ELSE [op |-> "status", job_id |-> j, code |-> 200, body |-> <<jobs[j]>>]
  /\ UNCHANGED <<jobs, upload, opc, tasks, final_results, permits, kickoffs, orphans, files>>

\* str.lstrip("'"): every leading apostrophe goes
RECURSIVE lstrip_apostrophes(_)
lstrip_apostrophes(s) ==
  IF s # <<>> /\ Head(s) = "'" THEN lstrip_apostrophes(Tail(s)) ELSE s

\* df['company_phone'].str.lstrip("'")
lstrip_quote(rows) ==
  [i \in 1..Len(rows) |->
     [rows[i] EXCEPT !.company_phone = lstrip_apostrophes(@)]]

\* pd.read_csv raises EmptyDataError on the file to_csv writes for no rows at
\* all, which holds no header; nothing handles it
Readable(rows) == rows # <<>>

\* a download that looks for the job and not at its status
DownloadAnyStatus(j) ==
  /\ UNCHANGED call
  /\ resp' = IF j \notin DOMAIN jobs
             THEN [op |-> "download", job_id |-> j, code |-> 400, body |-> <<>>]
             ELSE IF jobs[j].status # "completed"
             THEN [op |-> "download", job_id |-> j, code |-> 200, body |-> <<>>]
             ELSE IF jobs[j].output_file \in DOMAIN files
                     /\ Readable(files[jobs[j].output_file])
             THEN [op |-> "download", job_id |-> j, code |-> 200,
                   body |-> lstrip_quote(files[jobs[j].output_file])]
             ELSE [op |-> "download", job_id |-> j, code |-> 500, body |-> <<>>]
  /\ UNCHANGED <<jobs, upload, opc, tasks, final_results, permits, kickoffs, orphans, files>>

\* download_results(job_id)
Download(j) ==
  /\ UNCHANGED call
  /\ resp' = IF j \notin DOMAIN jobs
             THEN [op |-> "download", job_id |-> j, code |-> 400, body |-> <<>>]
             ELSE IF jobs[j].status # "completed"
             THEN [op |-> "download", job_id |-> j, code |-> 400, body |-> <<>>]
             ELSE IF jobs[j].output_file \in DOMAIN files
                     /\ Readable(files[jobs[j].output_file])
             THEN [op |-> "download", job_id |-> j, code |-> 200,
                   body |-> lstrip_quote(files[jobs[j].output_file])]
             ELSE [op |-> "download", job_id |-> j, code |-> 500, body |-> <<>>]
  /\ UNCHANGED <<jobs, upload, opc, tasks, final_results, permits, kickoffs, orphans, files>>

\* the artifact is removed from the working directory by something else
ArtifactLost(f) ==
  /\ f \in DOMAIN files
  /\ files' = [x \in (DOMAIN files) \ {f} |-> files[x]]
  /\ UNCHANGED call
  /\ resp' = NoResp
  /\ UNCHANGED <<jobs, upload, opc, tasks, final_results, permits, kickoffs, orphans>>

(***************************************************************************)
(* Specifications                                                          *)
(***************************************************************************)
\* one client job, the first id, over every sheet of the menu and every engine
\* outcome; the last id is never issued and stands for an unknown job id
Next ==
  \/ \E up \in Uploads : Submit(1, up)
  \/ StartBackground(1)
  \/ \E p \in Passes, i \in 1..MaxRows : TaskSkips(1, p, i)
  \/ \E p \in Passes, i \in 1..MaxRows : TaskKickoff(1, p, i)
  \/ \E p \in Passes, i \in 1..MaxRows, o \in Outcomes : TaskReturns(1, p, i, o)
  \/ \E p \in Passes, i \in 1..MaxRows : TaskTimesOut(1, p, i)
  \/ OrphanEnds
  \/ GatherRaises(1)
  \/ CollectFirst(1)
  \/ CollectRetry(1)
  \/ \E j \in {1, MaxJobs} : GetStatus(j)
  \/ \E j \in {1, MaxJobs} : Download(j)
  \/ \E f \in DOMAIN files : ArtifactLost(f)

Spec == Init /\ [][Next]_vars

\* the sheets of the clients that submit side by side
JobUploads ==
  {[variant |-> "social", rows |-> <<NoneTextRow, AcmeRow>>],
   [variant |-> "business", rows |-> <<AcmeBare>>]}

\* how their engine calls end, when not abandoned
JobOutcomes == {Returned(RawEmpty), Failed(<<"connection refused">>)}

\* several client jobs side by side, all sharing concurrency_limit
NextJobs ==
  \/ \E j \in JobIds, up \in JobUploads : Submit(j, up)
  \/ \E j \in JobIds : StartBackground(j)
  \/ \E j \in JobIds, p \in Passes, i \in 1..MaxRows : TaskSkips(j, p, i)
  \/ \E j \in JobIds, p \in Passes, i \in 1..MaxRows : TaskKickoff(j, p, i)
  \/ \E j \in JobIds, p \in Passes, i \in 1..MaxRows, o \in JobOutcomes :
       TaskReturns(j, p, i, o)
  \/ \E j \in JobIds, p \in Passes, i \in 1..MaxRows : TaskTimesOut(j, p, i)
  \/ OrphanEnds
  \/ \E j \in JobIds : GatherRaises(j)
  \/ \E j \in JobIds : CollectFirst(j)
  \/ \E j \in JobIds : CollectRetry(j)
  \/ \E f \in DOMAIN files : ArtifactLost(f)

SpecJobs == Init /\ [][NextJobs]_vars

(***************************************************************************)
(* The contact validation of process_business_row (main.py 479-536), one   *)
(* call of it over every row and every decoded engine answer of a menu     *)
(***************************************************************************)
\* the phone of the input row and the phone of the engine answer of the
\* scenario "country-code form against local form"
PhoneIntl == <<"+", "9", "7", "1", "-", "5", "0", "-", "1", "2", "3", "4", "5", "6", "7">>
PhoneLocal == <<"0", "5", "0", "1", "2", "3", "4", "5", "6", "7">>

\* the Contact cells, the Email cells and the Website cells of the rows
ContactCells ==
  {NaN, PhoneIntl, Phone971, Phone050, <<"0", "5", "0", " ", "1">>, <<"-">>}
EmailCells == {NaN, <<"sales@acme.com">>, <<" ", "Info@Acme.com">>}
WebsiteCells == {NaN, <<"acme.com">>}

\* the "company" objects of the engine answers
FetchedCompanies ==
  [phone : {JStr(p) : p \in {<<>>, <<"...">>, PhoneLocal, Phone050, <<"5", "0", "1">>}},
   email : {JStr(e) : e \in {<<>>, <<"Not Found">>, <<"info@acme.com">>}},
   website : {JStr(w) : w \in {<<>>, <<"acme.com">>}}]

\* no result yet
NoContacts == [final |-> <<>>, penalty |-> 0]
NoScore ==
  [company |-> CompanyDetails(<<>>, <<>>, <<>>, <<>>), penalty |-> 0, base_score |-> 0,
   final_contactibility_score |-> 0]

InitReconcile ==
  /\ Idle
  /\ \E contact \in ContactCells, email \in EmailCells, website \in WebsiteCells,
        company \in FetchedCompanies :
       call = [fn |-> "reconcile", done |-> FALSE,
               row |-> Row(<<"Acme Co">>, website, email, contact),
               data |-> [confidence_score |-> JInt(80), company |-> JObj(company)],
               phone |-> NoContacts, email |-> NoContacts, out |-> NoScore]

\* input_phone, input_email after the clean up (lines 435-441)
InputPhone(row) == CellOrEmpty(row.Contact)
InputEmail(row) == CellOrEmpty(row.Email)

\* fetched_phone, fetched_email (lines 481-482)
FetchedPhone(data) == clean(GetPy(data["company"].v, "phone", <<>>))
FetchedEmail(data) == clean(GetPy(data["company"].v, "email", <<>>))

\* lines 479-536 run on the row and the decoded answer
Reconcile ==
  /\ call.fn = "reconcile"
  /\ ~call.done
  /\ call' = [call EXCEPT
       !.done = TRUE,
       !.phone = reconcile_phone(InputPhone(call.row), FetchedPhone(call.data)),
       !.email = reconcile_email(InputEmail(call.row), FetchedEmail(call.data)),
       !.out = business_reconcile(call.row, call.data, call.data["company"].v)]
  /\ UNCHANGED <<jobs, upload, opc, tasks, final_results, permits, kickoffs, orphans, files,
                 resp>>

NextReconcile == Reconcile

SpecReconcile == InitReconcile /\ [][NextReconcile]_vars

(***************************************************************************)
(* phones_match (utils.py 17-24, main.py 417-424), one call of it over     *)
(* every pair of short phone strings                                       *)
(***************************************************************************)
\* the str of up to MaxPhoneLen characters: digits and separators
PhoneStrings == UNION {[1..n -> {"0", "5", "-", "+"}] : n \in 0..MaxPhoneLen}

InitPhones ==
  /\ Idle
  /\ \E phone1 \in PhoneStrings, phone2 \in PhoneStrings :
       call = [fn |-> "phones_match", done |-> FALSE, phone1 |-> phone1, phone2 |-> phone2,
               out |-> FALSE]

MatchPhones ==
  /\ call.fn = "phones_match"
  /\ ~call.done
  /\ call' = [call EXCEPT !.done = TRUE, !.out = phones_match(call.phone1, call.phone2)]
  /\ UNCHANGED <<jobs, upload, opc, tasks, final_results, permits, kickoffs, orphans, files,
                 resp>>

NextPhones == MatchPhones

SpecPhones == InitPhones /\ [][NextPhones]_vars

(***************************************************************************)
(* One row executor on one raw engine output: the extraction of the lead   *)
(* (main.py 91-198, 324-396, 465-567)                                      *)
(***************************************************************************)
\* the object of a tool call the engine echoes
ToolEcho == <<LB, Member("query", JStr(<<"acme">>)), RB>>

\* an object with the marker key that is no JSON: prose after a member
Truncated == <<LB, Member("confidence_score", JInt(80)), Prose(<<"and so on">>), RB>>

\* a final answer with every field: a JSON object with confidence_score
Payload(reason_key, confidence, phone) ==
  <<LB, Member("category_main_industry", JStr(<<"Retail">>)),
    Member("confidence_score", JInt(confidence)),
    Member(reason_key, JStr(<<"Opened a new branch">>)),
    Member("notes", JStr(<<"Good lead">>)),
    Key("company"), LB, Member("phone", JStr(phone)),
    Member("email", JStr(<<"info@acme.com">>)),
    Member("website", JStr(<<"acme.com">>)),
    Member("Other", JStr(<<"PO Box 1">>)), RB, RB>>

Payloads ==
  {Payload(k, c, p) : k \in {"reason_to_call", "ai_reason_to_call"}, c \in {80, 150},
                      p \in {Phone050, <<"...">>}}

\* what an engine output is made of
Pieces == {RawRefusal, ToolEcho, Truncated} \cup Payloads

RECURSIVE Concat(_)
Concat(ps) == IF ps = <<>> THEN <<>> ELSE Head(ps) \o Concat(Tail(ps))

\* str(result.raw): up to MaxPieces pieces, one after the other
PieceLists == UNION {[1..n -> Pieces] : n \in 1..MaxPieces}

InitExtract ==
  /\ Idle
  /\ \E variant \in Variants, row \in {AcmeRow, AcmeBare}, is_retry \in BOOLEAN,
        pieces \in PieceLists :
       call = [fn |-> "extract", done |-> FALSE, variant |-> variant, row |-> row,
               is_retry |-> is_retry, pieces |-> pieces, raw |-> Concat(pieces),
               out |-> ReturnsNone]

\* the executor from the return of crew.kickoff on
Extract ==
  /\ call.fn = "extract"
  /\ ~call.done
  /\ call' = [call EXCEPT
               !.done = TRUE,
               !.out = RowExecutor(call.variant, call.row, call.is_retry, Returned(call.raw))]
  /\ UNCHANGED <<jobs, upload, opc, tasks, final_results, permits, kickoffs, orphans, files,
                 resp>>

NextExtract == Extract

SpecExtract == InitExtract /\ [][NextExtract]_vars

(***************************************************************************)
(* The head of an orchestrator: dropna and drop_duplicates on the sheet    *)
(* (main.py 232-234, 580-582, 667-668)                                     *)
(***************************************************************************)
\* rows whose brands are equal, differ in case and blanks only, differ, or
\* are empty
DedupRows ==
  {Row(brand, website, NaN, NaN) :
     brand \in {<<"Acme">>, <<" ", "acme">>, <<"Beta">>, NaN},
     website \in {<<"acme.com">>, NaN}}

InitDedup ==
  /\ Idle
  /\ \E rows \in Sheets(DedupRows) :
       call = [fn |-> "dedup", done |-> FALSE, rows |-> rows, out |-> <<>>]

Dedup ==
  /\ call.fn = "dedup"
  /\ ~call.done
  /\ call' = [call EXCEPT !.done = TRUE, !.out = drop_duplicates(dropna(call.rows))]
  /\ UNCHANGED <<jobs, upload, opc, tasks, final_results, permits, kickoffs, orphans, files,
                 resp>>

NextDedup == Dedup

SpecDedup == InitDedup /\ [][NextDedup]_vars

(***************************************************************************)
(* The submit endpoints on any uploaded file (endpoints.py 23-82, main.py  *)
(* 647-749), and the head of the background task on the sheet              *)
(***************************************************************************)
\* a row of a sheet that has no Brand column
OtherRow == [Company |-> <<"Acme">>, Website |-> <<"acme.com">>]

\* uploaded files: the extension of the file name, the format of the bytes,
\* and the rows the bytes hold when they are a sheet
UploadFiles ==
  [ext : {".xlsx"}, format : {"xlsx"}, rows : {<<AcmeRow>>, <<AcmeRow, BlankRow>>, <<OtherRow>>}]
    \cup [ext : {".csv"}, format : {"csv"}, rows : {<<AcmeRow>>, <<OtherRow>>}]
    \cup [ext : {".xlsx", ".txt"}, format : {"garbage"}, rows : {<<>>}]
    \cup [ext : {".txt"}, format : {"csv"}, rows : {<<AcmeRow>>}]

\* pd.read_excel / pd.read_csv in the try of the endpoint: the business
\* endpoint goes by the extension and refuses any other than .csv, .xlsx,
\* .xls; the others read every file as Excel
read_upload(variant, file) ==
  IF variant = "business"
  THEN CASE file.ext = ".csv" -> file.format = "csv"
         [] file.ext \in {".xlsx", ".xls"} -> file.format = "xlsx"
         [] OTHER -> FALSE
  ELSE file.format = "xlsx"

\* the status code of the except branch of the endpoint
reject_code(variant) == IF variant = "social" THEN 500 ELSE 400

\* a submit endpoint, whole: read the file, then either the entry, the
\* background task and the 200, or the HTTPException
SubmitUpload(j, variant, file) ==
  /\ j \notin DOMAIN jobs
  /\ call' = [fn |-> "submit", variant |-> variant, file |-> file, jobs |-> jobs, opc |-> opc]
  /\ IF read_upload(variant, file)
     THEN /\ jobs' = Put(jobs, j, [status |-> "queued"])
          /\ upload' = [upload EXCEPT ![j] = [variant |-> variant, rows |-> file.rows]]
          /\ opc' = [opc EXCEPT ![j] = "queued"]
          /\ resp' = [op |-> "submit", job_id |-> j, code |-> 200,
                      body |-> <<Len(file.rows)>>]
     ELSE /\ resp' = [op |-> "submit", job_id |-> 0, code |-> reject_code(variant),
                      body |-> <<>>]
          /\ UNCHANGED <<jobs, upload, opc>>
  /\ UNCHANGED <<tasks, final_results, permits, kickoffs, orphans, files>>

\* df.dropna(subset=["Brand"]) raises KeyError on a sheet without the column
HasIdentity(rows) == \A i \in DOMAIN rows : "Brand" \in DOMAIN rows[i]

\* the background task up to the first gather, on any sheet: the status is
\* set to running before dropna can raise
StartUpload(j) ==
  /\ opc[j] = "queued"
  /\ jobs' = [jobs EXCEPT ![j] = [status |-> "running"]]
  /\ IF HasIdentity(upload[j].rows)
     THEN /\ tasks' = [tasks EXCEPT ![j].first =
                        [i \in 1..Len(drop_duplicates(dropna(upload[j].rows))) |->
                           NewTask(drop_duplicates(dropna(upload[j].rows))[i], FALSE)]]
          /\ opc' = [opc EXCEPT ![j] = "first_pass"]
     ELSE /\ opc' = [opc EXCEPT ![j] = "crashed_keyerror"]
          /\ UNCHANGED tasks
  /\ resp' = NoResp
  /\ UNCHANGED <<call, upload, final_results, permits, kickoffs, orphans, files>>

NextSubmit ==
  \/ \E j \in JobIds, variant \in Variants, file \in UploadFiles : SubmitUpload(j, variant, file)
  \/ \E j \in JobIds : StartUpload(j)

SpecSubmit == Init /\ [][NextSubmit]_vars

(***************************************************************************)
(* upload_leads: the CRM export (endpoints.py 135-224, zoho.py 27-81)      *)
(***************************************************************************)
\* one row of the uploaded CSV, the columns the export decides on
CsvRow(brand_name, confidence_score) ==
  [brand_name |-> brand_name, company_website |-> <<"site">> \o brand_name,
   company_email |-> <<>>, confidence_score |-> confidence_score]

\* a CSV of n leads of confidence 80, brands 1..n, followed by a lead of
\* confidence 70 and by a second copy of the first row
Csv(n) ==
  [i \in 1..n |-> CsvRow(<<i>>, 80)] \o <<CsvRow(<<0>>, 70), CsvRow(<<1>>, 80)>>

CsvSizes ==
  {0, 1, BatchLimit - 1, BatchLimit, BatchLimit + 1, MaxBatches * BatchLimit,
   MaxBatches * BatchLimit + 1}

\* the rows the CRM search finds: none, all, the odd ones, the hundredth
Found(n) == {{}, 1..(n + 1), {i \in 1..n : i % 2 = 1}, {BatchLimit} \cap (1..n)}

\* df[df["confidence_score"] > 70]
confident(df) == SelectSeq(df, LAMBDA row : row.confidence_score > 70)

\* the subset of drop_duplicates
export_key(row) == <<row.brand_name, row.company_website, row.company_email>>

\* the rows of df that no earlier row equals on the subset
first_rows(df) ==
  {i \in DOMAIN df : \A h \in 1..(i - 1) : export_key(df[h]) # export_key(df[i])}

\* the rows of df at the places kept, in their order
rows_at(df, kept) ==
  [k \in 1..Cardinality(kept) |->
     df[CHOOSE i \in kept : Cardinality({h \in kept : h <= i}) = k]]

\* df.drop_duplicates(subset=["brand_name", "company_website", "company_email"])
drop_export_duplicates(df) == rows_at(df, first_rows(df))

\* the lead built from a row, the fields the CRM keys on
crm_lead(row) ==
  [Company |-> row.brand_name, Website |-> row.company_website, Email |-> row.company_email]

\* the call of upload_leads: the file, the CRM's search answers by row, and
\* the locals of the handler
InitExport ==
  /\ Idle
  /\ \E n \in CsvSizes :
       \E found \in Found(n) :
         call = [fn |-> "upload_leads", pc |-> "read", csv |-> Csv(n), found |-> found,
                 df |-> <<>>, i |-> 1, leads_to_create |-> <<>>, skipped_duplicates |-> <<>>,
                 created_count |-> 0, calls |-> <<>>]

\* read_csv, the confidence filter, fillna, drop_duplicates, the token
ExportRead ==
  /\ call.fn = "upload_leads"
  /\ call.pc = "read"
  /\ call' = [call EXCEPT !.pc = "loop", !.df = drop_export_duplicates(confident(call.csv))]
  /\ UNCHANGED <<jobs, upload, opc, tasks, final_results, permits, kickoffs, orphans, files,
                 resp>>

\* a create_leads after which the batch is not emptied
create_leads_keep_batch(c, answer) ==
  [c EXCEPT !.calls = Append(c.calls, c.leads_to_create),
            !.created_count =
              IF answer = "success" THEN c.created_count + Len(c.leads_to_create)
              ELSE c.created_count,
            !.pc = IF answer = "error" THEN "failed" ELSE c.pc]

\* create_leads(access_token, leads_to_create) and the count of its result:
\* the CRM takes the records, refuses them, or answers an HTTP error, which
\* raise_for_status raises and nothing in the handler catches
create_leads(c, answer) ==
  [c EXCEPT !.calls = Append(c.calls, c.leads_to_create),
            !.leads_to_create = IF answer = "error" THEN c.leads_to_create ELSE <<>>,
            !.created_count =
              IF answer = "success" THEN c.created_count + Len(c.leads_to_create)
              ELSE c.created_count,
            !.pc = IF answer = "error" THEN "failed" ELSE c.pc]

\* the row appended to leads_to_create, and the batch sent when it is full
export_append(c, answer) ==
  IF Len(c.leads_to_create) + 1 = BatchLimit
  THEN create_leads([c EXCEPT !.leads_to_create = Append(c.leads_to_create, crm_lead(c.df[c.i])),
                              !.i = c.i + 1], answer)
  ELSE [c EXCEPT !.leads_to_create = Append(c.leads_to_create, crm_lead(c.df[c.i])),
                 !.i = c.i + 1]

\* one turn of the loop over df
ExportRow(answer) ==
  /\ call.fn = "upload_leads"
  /\ call.pc = "loop"
  /\ call.i <= Len(call.df)
  /\ call' = IF call.i \in call.found
             THEN [call EXCEPT !.skipped_duplicates =
                                 Append(call.skipped_duplicates, call.df[call.i].brand_name),
                               !.i = call.i + 1]
             ELSE export_append(call, answer)
  /\ UNCHANGED <<jobs, upload, opc, tasks, final_results, permits, kickoffs, orphans, files,
                 resp>>

\* after the loop: the remaining leads are pushed and the counts returned
ExportReturn(answer) ==
  /\ call.fn = "upload_leads"
  /\ call.pc = "loop"
  /\ call.i > Len(call.df)
  /\ call' = IF call.leads_to_create = <<>> THEN [call EXCEPT !.pc = "returned"]
             ELSE IF answer = "error" THEN create_leads(call, answer)
             ELSE [create_leads(call, answer) EXCEPT !.pc = "returned"]
  /\ UNCHANGED <<jobs, upload, opc, tasks, final_results, permits, kickoffs, orphans, files,
                 resp>>

CrmAnswers == {"success", "refused", "error"}

NextExport ==
  \/ ExportRead
  \/ \E answer \in CrmAnswers : ExportRow(answer)
  \/ \E answer \in CrmAnswers : ExportReturn(answer)

SpecExport == InitExport /\ [][NextExport]_vars

(***************************************************************************)
(* The order of the results: one job whose row tasks finish in any order,  *)
(* the order being logged                                                  *)
(***************************************************************************)
\* the sheets: rows with a website, one of them with a placeholder brand
OrderUploads == [variant : Variants, rows : Sheets({AcmeRow, BetaRow, NoneTextRow})]

\* how the engine calls end, when not abandoned: a complete answer, or one
\* with no contact field
OrderOutcomes == {Returned(RawFull), Returned(RawEmpty)}

InitOrder == Idle /\ call = [fn |-> "gather", ended |-> <<>>]

NextOrder ==
  \/ \E up \in OrderUploads : Submit(1, up)
  \/ StartBackground(1)
  \/ \E p \in Passes, i \in 1..MaxRows : TaskSkips(1, p, i)
  \/ \E p \in Passes, i \in 1..MaxRows : TaskKickoff(1, p, i)
  \/ \E p \in Passes, i \in 1..MaxRows, o \in OrderOutcomes : TaskReturns(1, p, i, o)
  \/ \E p \in Passes, i \in 1..MaxRows : TaskTimesOut(1, p, i)
  \/ OrphanEnds
  \/ GatherRaises(1)
  \/ CollectFirst(1)
  \/ CollectRetry(1)

SpecOrder == InitOrder /\ [][NextOrder]_vars

(***************************************************************************)
(* The same job under the scheduling the event loop gives: a step of the   *)
(* orchestrator or of a row task that can be taken is taken in the end,    *)
(* and the bounded wait on an engine call ends: the timer of wait_for      *)
(* fires unless the call has returned or raised before                     *)
(***************************************************************************)
Scheduled ==
  \/ StartBackground(1)
  \/ \E p \in Passes, i \in 1..MaxRows : TaskSkips(1, p, i)
  \/ \E p \in Passes, i \in 1..MaxRows : TaskKickoff(1, p, i)
  \/ \E p \in Passes, i \in 1..MaxRows : TaskTimesOut(1, p, i)
  \/ GatherRaises(1)
  \/ CollectFirst(1)
  \/ CollectRetry(1)

SpecLive == Init /\ [][NextOrder]_vars /\ WF_vars(Scheduled)

(***************************************************************************)
(* Properties: what they speak of                                          *)
(***************************************************************************)
\* the row tasks there are, as <<job, pass, index>>
TaskIds ==
  {t \in JobIds \X Passes \X (1..MaxRows) : t[3] \in DOMAIN tasks[t[1]][t[2]]}

TheTask(t) == tasks[t[1]][t[2]][t[3]]

\* the tasks whose engine call has ended and whose executor gave a value
Answered == {t \in TaskIds : TheTask(t).pc = "done" /\ TheTask(t).result.kind = "value"}

\* the lead in the value a row executor gave back
LeadOf(variant, value) == IF variant = "social" THEN value.data ELSE value

TheLead(t) == LeadOf(upload[t[1]].variant, TheTask(t).result.value)

\* the first-pass tasks of a job whose row is accepted: it passed dropna and
\* drop_duplicates, and its brand is no placeholder
Accepted(j) ==
  {i \in DOMAIN tasks[j].first : ~IsSkippedBrand(tasks[j].first[i].row.Brand)}

\* where the leads of a brand stand in a list of leads
LeadsOfBrand(leads, brand) == {n \in 1..Len(leads) : leads[n]["brand_name"] = brand}

\* the row was sent to the retry pass
Retried(j, brand) == \E k \in DOMAIN tasks[j].retry : tasks[j].retry[k].row.Brand = brand

Completed(j) == j \in DOMAIN jobs /\ jobs[j].status = "completed"

WebsiteSupplied(row) == CellOrNone(row.Website) # None

\* the score the fallback policy gives a row
PolicyScore(row) == IF WebsiteSupplied(row) THEN 30 ELSE 0

(***************************************************************************)
(* C1                                                                      *)
(***************************************************************************)
\* C1: in a completed job every accepted row has exactly one lead in the final
\* results, the lead of its retry task when the row was retried and the lead of
\* its first-pass task otherwise; so the final results and the written artifact
\* hold as many leads as there are accepted rows, and no more than the sheet
\* has rows after dropna and drop_duplicates
C1_OneLeadPerAcceptedRow ==
  \A j \in JobIds :
    Completed(j) =>
      LET leads == final_results[j]
          first == tasks[j].first
          retry == tasks[j].retry
      IN /\ Len(leads) = Cardinality(Accepted(j))
         /\ Cardinality(Accepted(j)) <= Len(drop_duplicates(dropna(upload[j].rows)))
         /\ jobs[j].output_file \in DOMAIN files =>
              Len(files[jobs[j].output_file]) = Cardinality(Accepted(j))
         /\ \A i \in Accepted(j) :
              /\ Cardinality(LeadsOfBrand(leads, first[i].row.Brand)) = 1
              /\ \A n \in LeadsOfBrand(leads, first[i].row.Brand) :
                   IF Retried(j, first[i].row.Brand)
                   THEN \E k \in DOMAIN retry :
                          /\ retry[k].row.Brand = first[i].row.Brand
                          /\ leads[n] = LeadOf(upload[j].variant, retry[k].result.value)
                   ELSE leads[n] = LeadOf(upload[j].variant, first[i].result.value)

\* a completed job of two accepted rows, one lead from the first pass and one
\* from the retry pass
C1_Witness ==
  \E j \in JobIds :
    /\ Completed(j)
    /\ Cardinality(Accepted(j)) = 2
    /\ Len(tasks[j].retry) = 1
    /\ Len(final_results[j]) = 2

(***************************************************************************)
(* C2                                                                      *)
(***************************************************************************)
\* C2: no orchestrator ever ends on a row's failure: neither an exception of a
\* row task nor a row result it cannot read stops it before it has collected
\* every result
C2_RowFailureNeverAborts ==
  \A j \in JobIds : opc[j] \notin {"crashed_row", "crashed_keyerror"}

(***************************************************************************)
(* C3                                                                      *)
(***************************************************************************)
\* the tasks that hold a slot of concurrency_limit across a suspension point
Holders == {t \in TaskIds : TheTask(t).pc = "engine"}

\* the engine calls a job has started
Started(bag) == {k \in DOMAIN bag : bag[k] > 0}

\* C3: over all jobs and both passes the tasks holding a slot are at most
\* MAX_CONCURRENT_CREWS, the free slots being the rest; and a step that starts
\* an engine call takes a free slot, which its task holds afterwards
C3_GateBoundsHolders ==
  /\ [](/\ Cardinality(Holders) <= MAX_CONCURRENT_CREWS
        /\ permits = MAX_CONCURRENT_CREWS - Cardinality(Holders))
  /\ [][kickoffs' # kickoffs =>
          /\ permits > 0
          /\ permits' = permits - 1
          /\ \E t \in TaskIds : TheTask(t).pc = "waiting" /\ t \in Holders']_vars

\* a retry-pass task of one job holds the only slot while a task of another
\* job waits for it
C3_Witness ==
  \E t \in Holders, u \in TaskIds :
    /\ t[1] # u[1]
    /\ t[2] = "retry"
    /\ TheTask(u).pc = "waiting"
    /\ permits = 0

(***************************************************************************)
(* C4                                                                      *)
(***************************************************************************)
\* C4: the engine is started at most once per row and pass, so at most twice
\* per accepted row; the retry pass holds retry tasks only, no more than there
\* are accepted rows; and a completed job holds the lead of every retry task in
\* its final results, whatever the lead's score
C4_AtMostOneRetryPass ==
  \A j \in JobIds :
    /\ \A k \in DOMAIN kickoffs[j] : kickoffs[j][k] <= 1
    /\ \A k \in Started(kickoffs[j]) :
         k[2] => Count(kickoffs[j], <<k[1], FALSE>>) = 1
    /\ Len(tasks[j].retry) <= Cardinality(Accepted(j))
    /\ \A i \in DOMAIN tasks[j].first : ~tasks[j].first[i].is_retry
    /\ \A i \in DOMAIN tasks[j].retry : tasks[j].retry[i].is_retry
    /\ Completed(j) =>
         \A i \in DOMAIN tasks[j].retry :
           /\ tasks[j].retry[i].result.kind = "value"
           /\ \E n \in 1..Len(final_results[j]) :
                final_results[j][n] = tasks[j].retry[i].result.value.data

\* a completed job whose retried row scored nothing again in the retry pass:
\* the engine ran twice for it and the retry lead is in the final results
C4_Witness ==
  \E j \in JobIds :
    /\ Completed(j)
    /\ \E i \in DOMAIN tasks[j].retry :
         /\ contactibility(tasks[j].retry[i].result.value.data["company"]) = 0
         /\ Count(kickoffs[j], <<tasks[j].retry[i].row.Brand, FALSE>>) = 1
         /\ Count(kickoffs[j], <<tasks[j].retry[i].row.Brand, TRUE>>) = 1

(***************************************************************************)
(* C5                                                                      *)
(***************************************************************************)
\* the status after a status, a step later
Forward(before, after) ==
  \/ after = before
  \/ before = "queued" /\ after = "running"
  \/ before = "running" /\ after = "completed"

\* C5: an entry of the job store starts as queued and stays in the store; in
\* every step its status stays or moves to the next of queued, running,
\* completed; and the entry of a completed job is the same after every step
C5_StatusOnlyForward ==
  [][\A j \in JobIds :
       /\ (j \notin DOMAIN jobs /\ j \in DOMAIN jobs') => jobs'[j].status = "queued"
       /\ j \in DOMAIN jobs =>
            /\ j \in DOMAIN jobs'
            /\ Forward(jobs[j].status, jobs'[j].status)
            /\ jobs[j].status = "completed" => jobs'[j] = jobs[j]]_vars

\* a completed job has been asked for its artifact and has got it
C5_Witness ==
  \E j \in JobIds :
    /\ Completed(j)
    /\ resp.job_id = j
    /\ resp.op = "download"
    /\ resp.code = 200

(***************************************************************************)
(* C6                                                                      *)
(***************************************************************************)
\* C6: a download answered with the artifact is a download of a completed job,
\* and the answer holds the job's artifact; a download of a job that is not in
\* the store or not completed is answered 400 with no artifact; and the step of
\* a download leaves the job store as it was
C6_DownloadOnlyWhenCompleted ==
  /\ [](resp.op = "download" =>
          /\ resp.code = 200 =>
               /\ Completed(resp.job_id)
               /\ resp.body = lstrip_quote(files[jobs[resp.job_id].output_file])
          /\ ~Completed(resp.job_id) => resp.code = 400 /\ resp.body = <<>>)
  /\ [][resp'.op = "download" => jobs' = jobs]_vars

\* a running job has been asked for its artifact and refused
C6_Witness ==
  /\ resp.op = "download"
  /\ resp.code = 400
  /\ resp.job_id \in DOMAIN jobs
  /\ jobs[resp.job_id].status = "running"

(***************************************************************************)
(* C7                                                                      *)
(***************************************************************************)
\* C7: a job whose artifact could not be written is in the store as failed
C7_PersistenceFailureSurfaced ==
  \A j \in JobIds : opc[j] = "crashed_persist" => jobs[j].status = "failed"

(***************************************************************************)
(* C8                                                                      *)
(***************************************************************************)
\* the notes the timeout branches write
TimeoutNotes == {<<"Processing took longer than 30s">>, <<"Processing exceeded time limit">>}

\* C8: a task whose wait on the engine timed out gave a lead with
\* confidence_score 0, contactibility_score 30 if the row has a website and 0
\* if not, and the note of a timeout
C8_TimeoutFallbackLead ==
  \A t \in TaskIds :
    TheTask(t).outcome.kind = "timeout" =>
      /\ t \in Answered
      /\ TheLead(t)["confidence_score"] = 0
      /\ TheLead(t)["notes"] \in TimeoutNotes
      /\ "contactibility_score" \in DOMAIN TheLead(t)
      /\ TheLead(t)["contactibility_score"] = PolicyScore(TheTask(t).row)

(***************************************************************************)
(* C9                                                                      *)
(***************************************************************************)
\* C9: a task whose engine call raised gave, and did not raise, a lead with
\* confidence_score 0, contactibility_score 30 if the row has a website and 0
\* if not, and a note of the error
C9_ExceptionFallbackLead ==
  \A t \in TaskIds :
    TheTask(t).outcome.kind = "raise" =>
      /\ TheTask(t).result.kind # "raise"
      /\ t \in Answered
      /\ TheLead(t)["confidence_score"] = 0
      /\ TheLead(t)["notes"] = <<"Error: ">> \o TheTask(t).outcome.msg
      /\ "contactibility_score" \in DOMAIN TheLead(t)
      /\ TheLead(t)["contactibility_score"] = PolicyScore(TheTask(t).row)

(***************************************************************************)
(* C10                                                                     *)
(***************************************************************************)
\* the answered tasks of the social pipeline, whose value holds needs_retry
SocialAnswered == {t \in Answered : upload[t[1]].variant = "social"}

NeedsRetry(t) == TheTask(t).result.value.needs_retry

FirstPassWithWebsite(t) == ~TheTask(t).is_retry /\ WebsiteSupplied(TheTask(t).row)

\* the lead is the one of the inner except branch
ParseFailed(t) == TheLead(t)["ai_reason_to_call"] = <<"AI output parsing failed">>

\* the executor reached the lines that compute the score
ScoreComputed(t) == TheTask(t).outcome.kind = "return" /\ ~ParseFailed(t)

\* the score of the contact fields the lead holds
LeadScore(t) == contactibility(TheLead(t)["company"])

\* C10, as amended: needs_retry is true exactly on the first pass of a row
\* with a website when the engine call did not raise and either the wait timed
\* out, or the output gave no valid lead, or the score computed from the
\* decoded contact fields is 0
C10_NeedsRetryByBranch ==
  \A t \in SocialAnswered :
    NeedsRetry(t) <=>
      /\ FirstPassWithWebsite(t)
      /\ TheTask(t).outcome.kind # "raise"
      /\ \/ TheTask(t).outcome.kind = "timeout"
         \/ ParseFailed(t)
         \/ LeadScore(t) = 0

\* a first-pass row with a website whose decoded contact fields score 0 is
\* flagged, next to one whose engine call raised and is not
C10_Witness ==
  \E t \in SocialAnswered, u \in SocialAnswered :
    /\ FirstPassWithWebsite(t) /\ ScoreComputed(t) /\ LeadScore(t) = 0 /\ NeedsRetry(t)
    /\ FirstPassWithWebsite(u) /\ TheTask(u).outcome.kind = "raise" /\ ~NeedsRetry(u)

\* C10, as stated: needs_retry is true exactly on the first pass of a row with
\* a website whose computed score is 0, whether a branch that computes no
\* score counts as having none or as having the score of its lead's empty
\* contact fields
C10_NeedsRetryIffScoreZero ==
  \/ \A t \in SocialAnswered :
       NeedsRetry(t) <=> (FirstPassWithWebsite(t) /\ ScoreComputed(t) /\ LeadScore(t) = 0)
  \/ \A t \in SocialAnswered :
       NeedsRetry(t) <=> (FirstPassWithWebsite(t) /\ LeadScore(t) = 0)

(***************************************************************************)
(* C11                                                                     *)
(***************************************************************************)
\* the call of the contact validation has run
Reconciled == call.fn = "reconcile" /\ call.done

\* "<input>, <fetched>"
Both(input, fetched) == input \o <<",", " ">> \o fetched

\* C11: the final phone is "<input>, <fetched>" with a penalty of 10 when both
\* phones are non-empty and do not match, the fetched phone with no penalty
\* when both are non-empty and match, the non-empty one with no penalty when
\* the other is empty, and empty when both are; the total penalty is the
\* phone's and the email's
C11_PhoneReconciliation ==
  Reconciled =>
    LET input == InputPhone(call.row)
        fetched == FetchedPhone(call.data)
    IN /\ (input # <<>> /\ fetched # <<>> /\ ~phones_match(input, fetched)) =>
            call.phone = [final |-> Both(input, fetched), penalty |-> 10]
       /\ (input # <<>> /\ fetched # <<>> /\ phones_match(input, fetched)) =>
            call.phone = [final |-> fetched, penalty |-> 0]
       /\ (input # <<>> /\ fetched = <<>>) => call.phone = [final |-> input, penalty |-> 0]
       /\ (input = <<>> /\ fetched # <<>>) => call.phone = [final |-> fetched, penalty |-> 0]
       /\ (input = <<>> /\ fetched = <<>>) => call.phone.final = <<>>
       /\ call.out.company.phone = call.phone.final
       /\ call.out.penalty = call.phone.penalty + call.email.penalty

\* two phones that do not match have been merged, at a penalty of 10
C11_Witness ==
  /\ Reconciled
  /\ InputPhone(call.row) = Phone971
  /\ FetchedPhone(call.data) = Phone050
  /\ call.phone = [final |-> Both(Phone971, Phone050), penalty |-> 10]

(***************************************************************************)
(* C12                                                                     *)
(***************************************************************************)
\* equal after trimming and lower-casing
SameEmail(a, b) == strip(lower(a)) = strip(lower(b))

\* C12: the final email is "<input>, <fetched>" with a penalty of 10 when both
\* emails are non-empty and differ after trimming and lower-casing, the
\* fetched email with no penalty when they are then equal, and the non-empty
\* one with no penalty when the other is empty
C12_EmailReconciliation ==
  Reconciled =>
    LET input == InputEmail(call.row)
        fetched == FetchedEmail(call.data)
    IN /\ (input # <<>> /\ fetched # <<>> /\ ~SameEmail(input, fetched)) =>
            call.email = [final |-> Both(input, fetched), penalty |-> 10]
       /\ (input # <<>> /\ fetched # <<>> /\ SameEmail(input, fetched)) =>
            call.email = [final |-> fetched, penalty |-> 0]
       /\ (input # <<>> /\ fetched = <<>>) => call.email = [final |-> input, penalty |-> 0]
       /\ (input = <<>> /\ fetched # <<>>) => call.email = [final |-> fetched, penalty |-> 0]
       /\ call.out.company.email = call.email.final

\* an input email that differs from the fetched one in case and blanks only
\* has been taken for the same, and the fetched one kept
C12_Witness ==
  /\ Reconciled
  /\ InputEmail(call.row) = <<" ", "Info@Acme.com">>
  /\ FetchedEmail(call.data) = <<"info@acme.com">>
  /\ call.email = [final |-> <<"info@acme.com">>, penalty |-> 0]

(***************************************************************************)
(* C13                                                                     *)
(***************************************************************************)
\* how many of the contact fields are non-empty
NonEmptyCount(company) ==
  Cardinality({k \in {"website", "email", "phone"} : company[k] # <<>>})

\* 3 gives 100, 2 gives 60, 1 gives 30, 0 gives 0
BaseScoreTable == [n \in 0..3 |-> CASE n = 3 -> 100 [] n = 2 -> 60 [] n = 1 -> 30 [] n = 0 -> 0]

\* C13: the base score is the table's for the number of non-empty fields among
\* the reconciled website, email and phone, the final score is the base score
\* less the penalty and 0 when that is negative; and the score of the social
\* executor is the table's too, for the eight ways the fields can be present
C13_BaseScoreByCount ==
  /\ Reconciled =>
       /\ call.out.base_score = BaseScoreTable[NonEmptyCount(call.out.company)]
       /\ call.out.final_contactibility_score =
            IF call.out.base_score - call.out.penalty >= 0
            THEN call.out.base_score - call.out.penalty ELSE 0
  /\ \A w, e, p \in {<<>>, <<"x">>} :
       contactibility(CompanyDetails(p, e, w, <<>>)) =
         BaseScoreTable[NonEmptyCount(CompanyDetails(p, e, w, <<>>))]

\* two of the three reconciled fields are there, one of them merged from a
\* mismatch: base 60, final 50
C13_Witness ==
  /\ Reconciled
  /\ NonEmptyCount(call.out.company) = 2
  /\ call.out.base_score = 60
  /\ call.out.penalty = 10
  /\ call.out.final_contactibility_score = 50

(***************************************************************************)
(* C14                                                                     *)
(***************************************************************************)
\* the final score of the row with another Contact cell, or another Email cell
ScoreWithContact(contact) ==
  business_reconcile([call.row EXCEPT !.Contact = contact], call.data,
                     call.data["company"].v).final_contactibility_score
ScoreWithEmail(email) ==
  business_reconcile([call.row EXCEPT !.Email = email], call.data,
                     call.data["company"].v).final_contactibility_score

\* the cells that hold a phone, or an email, that does not match the fetched one
MismatchingContacts ==
  {c \in ContactCells :
     ~phones_match(InputPhone(Row(<<>>, NaN, NaN, c)), FetchedPhone(call.data))}
MismatchingEmails ==
  {e \in EmailCells :
     ~SameEmail(InputEmail(Row(<<>>, NaN, e, NaN)), FetchedEmail(call.data))}

\* C14: when the input phone matches the fetched one, the score of the same
\* row and answer with any phone that does not match is no higher; and the
\* same for the email
C14_MismatchNeverRaisesScore ==
  Reconciled =>
    /\ phones_match(InputPhone(call.row), FetchedPhone(call.data)) =>
         \A c \in MismatchingContacts :
           ScoreWithContact(c) <= call.out.final_contactibility_score
    /\ (InputEmail(call.row) # <<>> /\ FetchedEmail(call.data) # <<>>
        /\ SameEmail(InputEmail(call.row), FetchedEmail(call.data))) =>
         \A e \in MismatchingEmails :
           ScoreWithEmail(e) <= call.out.final_contactibility_score

\* a row whose phone and email both match the fetched ones, next to phones
\* and emails that do not and score less
C14_Witness ==
  /\ Reconciled
  /\ phones_match(InputPhone(call.row), FetchedPhone(call.data))
  /\ SameEmail(InputEmail(call.row), FetchedEmail(call.data))
  /\ FetchedEmail(call.data) # <<>>
  /\ \E c \in MismatchingContacts : ScoreWithContact(c) < call.out.final_contactibility_score
  /\ \E e \in MismatchingEmails : ScoreWithEmail(e) < call.out.final_contactibility_score

(***************************************************************************)
(* C15                                                                     *)
(***************************************************************************)
\* C15: what phones_match gave for a pair of phones is what it gives for the
\* pair the other way round
C15_PhonesMatchSymmetric ==
  (call.fn = "phones_match" /\ call.done) =>
    call.out = phones_match(call.phone2, call.phone1)

\* a phone has been matched with a longer one that holds it, and a phone of
\* separators only with a phone of digits
C15_Witness ==
  /\ call.fn = "phones_match"
  /\ call.done
  /\ call.out
  /\ \/ call.phone1 = <<"5">> /\ call.phone2 = <<"+", "0", "5">>
     \/ call.phone1 = <<"-">> /\ call.phone2 = <<"0", "5">>

(***************************************************************************)
(* C16                                                                     *)
(***************************************************************************)
\* the row and the engine answer of the scenario
AcmeScenario ==
  /\ call.fn = "reconcile"
  /\ call.row = Row(<<"Acme Co">>, NaN, NaN, PhoneIntl)
  /\ call.data["company"].v =
       [phone |-> JStr(PhoneLocal), email |-> JStr(<<"info@acme.com">>),
        website |-> JStr(<<"acme.com">>)]

\* C16: in the scenario the phones are judged to match, there is no penalty,
\* the final email is info@acme.com and the final score is 100
C16_AcmeScenarioMatches ==
  (AcmeScenario /\ call.done) =>
    /\ phones_match(InputPhone(call.row), FetchedPhone(call.data))
    /\ call.out.penalty = 0
    /\ call.out.company.email = <<"info@acme.com">>
    /\ call.out.final_contactibility_score = 100

(***************************************************************************)
(* C17                                                                     *)
(***************************************************************************)
Extracted == call.fn = "extract" /\ call.done

\* the lead the executor under call gave back
ExtractedLead == LeadOf(call.variant, call.out.value)

\* the raw output holds a JSON-looking substring with the marker key
Marked(raw) == re_search_marked(raw).found

\* notes holds the start of the raw text, whatever stands around it
HoldsExcerpt(notes, raw) ==
  \E n \in 1..Len(RawText(raw)) : IsSubstring(SubSeq(RawText(raw), 1, n), notes)

\* C17: in every pipeline, a raw output without a marker-bearing JSON-looking
\* substring gives a lead of industry "Unknown" and confidence 0 whose notes
\* hold an excerpt of the raw output
C17_UnmarkedGivesUnknown ==
  (Extracted /\ ~Marked(call.raw)) =>
    /\ call.out.kind = "value"
    /\ ExtractedLead["category_main_industry"] = <<"Unknown">>
    /\ ExtractedLead["confidence_score"] = 0
    /\ HoldsExcerpt(ExtractedLead["notes"], call.raw)

(***************************************************************************)
(* C18                                                                     *)
(***************************************************************************)
\* the marker-bearing substring of the raw output is no JSON
Undecodable(raw) == Marked(raw) /\ ~json_loads(re_search_marked(raw).group).ok

\* C18: in the news pipeline, a raw output whose marker-bearing substring
\* fails JSON decoding gives the fallback lead: industry "Unknown",
\* confidence 0, reason "Schema validation failed", and notes holding the
\* start of the raw output
C18_DecodeErrorKeepsExcerpt ==
  (Extracted /\ call.variant = "news" /\ Undecodable(call.raw)) =>
    /\ call.out.kind = "value"
    /\ ExtractedLead["category_main_industry"] = <<"Unknown">>
    /\ ExtractedLead["confidence_score"] = 0
    /\ ExtractedLead["ai_reason_to_call"] = <<"Schema validation failed">>
    /\ HoldsExcerpt(ExtractedLead["notes"], call.raw)

(***************************************************************************)
(* C19                                                                     *)
(***************************************************************************)
Objects == {ToolEcho, Truncated} \cup Payloads

\* several JSON-looking objects, the last of them a final answer
SeveralObjects(pieces) ==
  /\ Len(pieces) >= 2
  /\ \A i \in DOMAIN pieces : pieces[i] \in Objects
  /\ pieces[Len(pieces)] \in Payloads

\* C19: of several JSON-looking objects the executor takes the last one, the
\* final answer: it gives what it gives for that object alone
C19_LastCandidateWins ==
  (Extracted /\ SeveralObjects(call.pieces)) =>
    call.out = RowExecutor(call.variant, call.row, call.is_retry,
                           Returned(call.pieces[Len(call.pieces)]))

(***************************************************************************)
(* C20                                                                     *)
(***************************************************************************)
\* the reason to call of a payload, under whichever key it has
PayloadReason(data) ==
  IF "reason_to_call" \in DOMAIN data THEN data["reason_to_call"].v
  ELSE data["ai_reason_to_call"].v

\* every field of the payload is in the lead with the same value
RoundTrips(lead, data) ==
  /\ lead["category_main_industry"] = data["category_main_industry"].v
  /\ lead["confidence_score"] = data["confidence_score"].v
  /\ lead["ai_reason_to_call"] = PayloadReason(data)
  /\ lead["notes"] = data["notes"].v
  /\ \A k \in {"phone", "email", "website", "Other"} :
       lead["company"][k] = data["company"].v[k].v

\* C20: a raw output that is one valid JSON object with confidence_score
\* gives a lead holding every field of the payload unchanged
C20_PayloadRoundTrips ==
  (Extracted /\ call.raw \in Payloads) =>
    /\ call.out.kind = "value"
    /\ RoundTrips(ExtractedLead, json_loads(call.raw).data)

(***************************************************************************)
(* C21                                                                     *)
(***************************************************************************)
Sentinels == {<<"...">>, <<"Not Found">>}

\* the phone the engine's payload holds
PayloadPhone(raw) == json_loads(raw).data["company"].v["phone"].v

\* C21: in every pipeline a phone the engine gave as "..." or "Not Found" is
\* output as the empty string, and the lead's contact fields count as one
\* field fewer than with a real phone
C21_SentinelIsEmpty ==
  (Extracted /\ call.raw \in Payloads /\ PayloadPhone(call.raw) \in Sentinels
     /\ json_loads(call.raw).data["confidence_score"].v \in 0..100) =>
    /\ call.out.kind = "value"
    /\ ExtractedLead["company"].phone = <<>>
    /\ contactibility(ExtractedLead["company"]) = 60

(***************************************************************************)
(* C22                                                                     *)
(***************************************************************************)
\* the value is an int of 0..100 under the key
PresentScore(lead, key) == key \in DOMAIN lead /\ lead[key] \in 0..100

\* the confidence the engine reported, brought into 0..100
Clamped(n) == IF n > 100 THEN 100 ELSE IF n < 0 THEN 0 ELSE n

\* C22: every lead of the final results of a completed job holds a
\* confidence_score and a contactibility_score that are ints of 0..100, and
\* the lead of a row whose engine answer reported a confidence of 150 holds
\* 100
C22_ScoresPresentAndClamped ==
  \A j \in JobIds :
    Completed(j) =>
      /\ \A n \in DOMAIN final_results[j] :
           /\ PresentScore(final_results[j][n], "confidence_score")
           /\ PresentScore(final_results[j][n], "contactibility_score")
      /\ \A t \in Answered :
           (t[1] = j /\ TheTask(t).outcome = Returned(RawOverconfident)) =>
             TheLead(t)["confidence_score"] = Clamped(150)

(***************************************************************************)
(* C23                                                                     *)
(***************************************************************************)
\* C23: in every lead of the final results of a job no company field is
\* None
C23_CompanyFieldsNeverNull ==
  \A j \in JobIds :
    \A n \in DOMAIN final_results[j] :
      \A k \in {"phone", "email", "website", "Other"} :
        final_results[j][n]["company"][k] # None

(***************************************************************************)
(* C24                                                                     *)
(***************************************************************************)
Sources == {<<"social">>, <<"news">>, <<"business">>, <<"proximity">>}

\* the tasks of the business pipeline whose executor has ended, the row's
\* brand being no placeholder
BusinessEnded ==
  {t \in TaskIds : /\ upload[t[1]].variant = "business"
                   /\ TheTask(t).pc = "done"
                   /\ ~IsSkippedBrand(TheTask(t).row.Brand)}

\* C24: every lead an executor gave has one of the four sources, and every
\* row the business executor has processed has a lead of source "business",
\* however the engine call ended
C24_BusinessLeadsHaveSource ==
  /\ \A t \in Answered : TheLead(t)["source"] \in Sources
  /\ \A t \in BusinessEnded :
       /\ TheTask(t).result.kind = "value"
       /\ TheLead(t)["source"] = <<"business">>

(***************************************************************************)
(* C25                                                                     *)
(***************************************************************************)
\* the columns of a flattened row that hold text
StringColumns ==
  {"brand_name", "source", "category_main_industry", "enrichment_status",
   "company_phone", "company_email", "company_website", "company_other",
   "dm_name", "dm_job_title", "dm_mobile", "dm_contact", "dm_email",
   "ai_reason_to_call", "notes"}

\* the value of the lead a text column is written from
LeadValue(lead, col) ==
  CASE col = "company_phone" -> lead["company"].phone
    [] col = "company_email" -> lead["company"].email
    [] col = "company_website" -> lead["company"].website
    [] col = "company_other" -> lead["company"].Other
    [] col = "dm_name" -> lead["decision_maker_1"].name
    [] col = "dm_job_title" -> lead["decision_maker_1"].job_title
    [] col = "dm_mobile" -> lead["decision_maker_1"].mobile_number
    [] col = "dm_contact" -> lead["decision_maker_1"].contact_number
    [] col = "dm_email" -> lead["decision_maker_1"].work_email
    [] OTHER -> lead[col]

\* the text of a lead value, trimmed; None has none
Trimmed(v) == IF v = None THEN <<>> ELSE strip(Str(v))

BeginsFormula(s) == s # <<>> /\ Head(s) \in FormulaStarts

\* the artifact of job j, where it is written
Artifact(j) == files[jobs[j].output_file]

Written(j) == Completed(j) /\ jobs[j].output_file \in DOMAIN files

\* C25: in a written artifact no text cell begins with "=", "+", "-" or "@",
\* and the cell of a lead value that begins with one of them once trimmed
\* is that trimmed value after an apostrophe
C25_NoCellBeginsFormula ==
  \A j \in JobIds :
    Written(j) =>
      \A i \in DOMAIN Artifact(j) :
        \A col \in StringColumns :
          /\ ~BeginsFormula(Artifact(j)[i][col])
          /\ BeginsFormula(Trimmed(LeadValue(final_results[j][i], col))) =>
               Artifact(j)[i][col] =
                 <<"'">> \o Trimmed(LeadValue(final_results[j][i], col))

\* an artifact is written whose phone cell is a neutralized "+971..." and
\* whose notes cell is a neutralized formula that came with a leading blank
C25_Witness ==
  \E j \in JobIds :
    /\ Written(j)
    /\ \E i \in DOMAIN Artifact(j) :
         /\ Artifact(j)[i]["company_phone"] = <<"'">> \o Phone971
         /\ final_results[j][i]["notes"] = <<" ", "=", "SUM(A1)">>
         /\ Artifact(j)[i]["notes"] = <<"'", "=", "SUM(A1)">>

(***************************************************************************)
(* C26                                                                     *)
(***************************************************************************)
\* the columns of the table, in order
ColumnOrder ==
  <<"brand_name", "source", "category_main_industry", "confidence_score",
    "contactibility_score", "enrichment_status", "company_phone", "company_email",
    "company_website", "company_other", "dm_name", "dm_job_title", "dm_mobile",
    "dm_contact", "dm_email", "ai_reason_to_call", "notes">>

\* the orchestrator of job j has flattened its final results
Flattened(j) == opc[j] \in {"done", "crashed_persist"}

\* C26: every lead the orchestrator of a job has flattened gives a flat row
\* with the seventeen columns in the one fixed order, and every row of a
\* written artifact has exactly those columns
C26_FixedColumns ==
  \A j \in JobIds :
    /\ Flattened(j) =>
         \A n \in DOMAIN final_results[j] :
           keys(flat_items(final_results[j][n], upload[j].variant)) = ColumnOrder
    /\ Written(j) =>
         \A i \in DOMAIN Artifact(j) :
           DOMAIN Artifact(j)[i] = {ColumnOrder[c] : c \in DOMAIN ColumnOrder}

\* an artifact is written that holds the row of a fallback lead, which has
\* no contact field and no score, and the row of a fully populated lead
C26_Witness ==
  \E j \in JobIds :
    /\ Written(j)
    /\ \E i \in DOMAIN Artifact(j) :
         /\ Artifact(j)[i]["company_phone"] = <<>>
         /\ Artifact(j)[i]["contactibility_score"] = JNull
         /\ Artifact(j)[i]["confidence_score"] = JInt(0)
    /\ \E i \in DOMAIN Artifact(j) :
         /\ Artifact(j)[i]["company_phone"] # <<>>
         /\ Artifact(j)[i]["company_email"] # <<>>
         /\ Artifact(j)[i]["notes"] # <<>>

(***************************************************************************)
(* C27                                                                     *)
(***************************************************************************)
Deduped == call.fn = "dedup" /\ call.done

\* the rows of a sheet without its i-th
Without(rows, i) == SubSeq(rows, 1, i - 1) \o SubSeq(rows, i + 1, Len(rows))

\* the first row of the sheet with the brand
FirstOf(rows, brand) == rows[SetMin({i \in DOMAIN rows : rows[i].Brand = brand})]

\* row i of the sheet repeats the brand of an earlier row
IsDuplicate(rows, i) == \E h \in 1..(i - 1) : rows[h].Brand = rows[i].Brand

\* brand_name, trimmed and lower-cased
IdentityKey(brand) == strip(lower(Str(brand)))

\* C27: the deduplicated sheet holds one row for each non-empty Brand cell of
\* the sheet, the cells compared as they are, and that row is the first of
\* the sheet with the brand; a sheet gives the same rows as the sheet without
\* one of its duplicates
C27_DedupKeepsFirst ==
  Deduped =>
    /\ \A a, b \in DOMAIN call.out : call.out[a].Brand = call.out[b].Brand => a = b
    /\ \A i \in DOMAIN call.rows :
         call.rows[i].Brand # NaN =>
           \E n \in DOMAIN call.out : call.out[n] = FirstOf(call.rows, call.rows[i].Brand)
    /\ \A n \in DOMAIN call.out : call.out[n] = FirstOf(call.rows, call.out[n].Brand)
    /\ \A i \in DOMAIN call.rows :
         IsDuplicate(call.rows, i) =>
           drop_duplicates(dropna(Without(call.rows, i))) = call.out

\* a sheet with the same brand twice, in rows that differ, has been
\* deduplicated to its first row
C27_Witness ==
  /\ Deduped
  /\ call.rows = <<Row(<<"Acme">>, <<"acme.com">>, NaN, NaN), Row(<<"Acme">>, NaN, NaN, NaN)>>
  /\ call.out = <<Row(<<"Acme">>, <<"acme.com">>, NaN, NaN)>>

\* C27, as stated: no two rows of the deduplicated sheet have brands with
\* the same identity key, the brand trimmed and lower-cased
C27_DedupByNormalizedKey ==
  Deduped =>
    \A a, b \in DOMAIN call.out :
      IdentityKey(call.out[a].Brand) = IdentityKey(call.out[b].Brand) => a = b

(***************************************************************************)
(* C28                                                                     *)
(***************************************************************************)
\* a submit endpoint has just answered
Answers == call.fn = "submit" /\ resp.op = "submit"

\* the upload is a sheet the endpoint can read, in the shape the pipeline
\* works on
Supported(variant, file) == read_upload(variant, file) /\ HasIdentity(file.rows)

\* C28: the answer to an upload that cannot be read or has an unsupported
\* shape is a 4xx, and the upload left the job store and the background
\* tasks as they were
C28_BadUploadRejected ==
  (Answers /\ ~Supported(call.variant, call.file)) =>
    /\ resp.code \in 400..499
    /\ jobs = call.jobs
    /\ opc = call.opc

(***************************************************************************)
(* C29                                                                     *)
(***************************************************************************)
\* a submit has just been answered with a job id
Submitted == resp.op = "submit" /\ resp.code = 200

\* the rows of a sheet the pipeline accepts: not dropped by dropna and
\* drop_duplicates, the brand no placeholder
AcceptedRows(rows) ==
  SelectSeq(drop_duplicates(dropna(rows)), LAMBDA r : ~IsSkippedBrand(r.Brand))

\* C29: the count a successful submit returns is the number of rows of the
\* uploaded sheet as read, and the artifact of the job, once written, has no
\* more rows than that
C29_RowsIsSheetLength ==
  /\ Submitted => resp.body = <<Len(upload[resp.job_id].rows)>>
  /\ \A j \in JobIds : Written(j) => Len(Artifact(j)) <= Len(upload[j].rows)

\* a job whose sheet had two rows, so that its submit returned 2, has written
\* an artifact of one row
C29_Witness ==
  \E j \in JobIds :
    Written(j) /\ Len(upload[j].rows) = 2 /\ Len(Artifact(j)) = 1

\* C29, as stated: the count a successful submit returns is the number of
\* rows accepted for processing, which is the number of rows of the artifact
C29_RowsIsAcceptedCount ==
  /\ Submitted => resp.body = <<Len(AcceptedRows(upload[resp.job_id].rows))>>
  /\ \A j \in JobIds : Written(j) => Len(Artifact(j)) = Len(AcceptedRows(upload[j].rows))

(***************************************************************************)
(* C30                                                                     *)
(***************************************************************************)
\* the places of the create calls: call c, record k
SentAt == {p \in (DOMAIN call.calls) \X (1..BatchLimit) : p[2] <= Len(call.calls[p[1]])}

\* the places where a lead was passed to a create call
PlacesOf(lead) == {p \in SentAt : call.calls[p[1]][p[2]] = lead}

\* the CRM search has found the row of the CSV to be a duplicate
FoundDuplicate(row) ==
  \E i \in call.found \cap DOMAIN call.df : export_key(call.df[i]) = export_key(row)

\* the row has been reported in skipped_duplicates
Reported(row) ==
  \E k \in DOMAIN call.skipped_duplicates : call.skipped_duplicates[k] = row.brand_name

WaitTimesOut(t) ==
  /\ TheTask(t).pc = "engine"
  /\ tasks'[t[1]][t[2]][t[3]].pc = "done"
  /\ tasks'[t[1]][t[2]][t[3]].outcome.kind = "timeout"

\* the task has given a fallback lead in this step
EmitsLead(t) == tasks'[t[1]][t[2]][t[3]].result.kind = "value"

\* C31: a step in which a task's wait times out gives the fallback lead of the
\* task, frees its slot of the gate and leaves its engine call running, one
\* more abandoned call; and the step in which an abandoned call ends changes
\* no task, no job's results, no job entry and no artifact
C31_TimeoutAbandonsOnlyTheWait ==
  [][/\ \A t \in TaskIds :
          WaitTimesOut(t) =>
            /\ EmitsLead(t)
            /\ permits' = permits + 1
            /\ orphans' = orphans + 1
     /\ orphans' < orphans => UNCHANGED <<tasks, final_results, jobs, files>>]_vars

(***************************************************************************)
(* C32                                                                     *)
(***************************************************************************)
\* the first-pass task of the accepted row of a brand
PlaceOf(j, brand) == CHOOSE i \in Accepted(j) : tasks[j].first[i].row.Brand = brand

\* when the task that gave the brand's lead finished: its retry task when the
\* row was retried, its first-pass task otherwise
LastEnded(j, brand) ==
  IF Retried(j, brand)
  THEN EndedAt(j, "retry",
               CHOOSE k \in DOMAIN tasks[j].retry : tasks[j].retry[k].row.Brand = brand)
  ELSE EndedAt(j, "first", PlaceOf(j, brand))

\* the lead at place m of the output stands before the lead at place n, the
\* row of the first being a later row of the sheet than the row of the second
LaterRowFirst(j, m, n) ==
  /\ m < n
  /\ PlaceOf(j, final_results[j][m]["brand_name"])
       > PlaceOf(j, final_results[j][n]["brand_name"])

\* the task of the lead at place m finished after the task of the lead at
\* place n
FinishedAfter(j, m, n) ==
  LastEnded(j, final_results[j][m]["brand_name"])
    > LastEnded(j, final_results[j][n]["brand_name"])

Flagged(j) ==
  {i \in DOMAIN tasks[j].first :
     /\ upload[j].variant = "social"
     /\ <<j, "first", i>> \in Answered
     /\ tasks[j].first[i].result.value.needs_retry}

\* the orchestrator has gone through the results of its first gather
Partitioned(j) == AllDone(j, "first") /\ opc[j] \notin {"queued", "first_pass"}

\* the retry tasks launched for the row of a first-pass task
RetriesOf(j, i) ==
  {k \in DOMAIN tasks[j].retry :
     tasks[j].retry[k].row = tasks[j].first[i].row /\ tasks[j].retry[k].is_retry}

\* C33: once the orchestrator has gone through the results of the first pass,
\* every row whose result is flagged needs_retry has exactly one retry task
C33_FlaggedRowsRequeued ==
  \A j \in JobIds :
    Partitioned(j) => \A i \in Flagged(j) : Cardinality(RetriesOf(j, i)) = 1

(***************************************************************************)
(* C34                                                                     *)
(***************************************************************************)
\* the places a row task can have
TaskPlaces == JobIds \X Passes \X (1..MaxRows)

Waiting(t) == t \in TaskIds /\ TheTask(t).pc = "waiting"

\* the task has taken its slot and given it back
Left(t) == t \in TaskIds /\ TheTask(t).pc = "done"

\* to_csv never fails
DiskHolds == \A j \in JobIds : opc[j] # "crashed_persist"

\* C34: under the scheduling of the event loop, with every engine call ending
\* and the disk holding, every waiting row task takes its slot and gives it
\* back, and every job in the store becomes completed
C34_EveryJobCompletes ==
  []DiskHolds =>
    /\ \A t \in TaskPlaces : Waiting(t) ~> Left(t)
    /\ \A j \in JobIds : (j \in DOMAIN jobs) ~> Completed(j)

(***************************************************************************)
(* C35                                                                     *)
(***************************************************************************)
\* C35: in every state, each of which a status or download request can
\* observe, a job entry whose status is completed holds its output_file, the
\* file name made from the pipeline and the job id
C35_CompletedHasOutputFile ==
  \A j \in DOMAIN jobs :
    jobs[j].status = "completed" =>
      /\ "output_file" \in DOMAIN jobs[j]
      /\ jobs[j].output_file = output_filename(upload[j].variant, j)

\* a status request has answered with the entry of a completed news job, the
\* pipeline that writes the status before the output_file
C35_Witness ==
  /\ resp.op = "status"
  /\ resp.code = 200
  /\ upload[resp.job_id].variant = "news"
  /\ resp.body[1].status = "completed"
  /\ "output_file" \in DOMAIN resp.body[1]

(***************************************************************************)
(* C36                                                                     *)
(***************************************************************************)
\* a download has answered with the rows of an artifact
Served == resp.op = "download" /\ resp.code = 200

\* C36: in the rows a download serves no text cell, company_phone included,
\* begins with "=", "+", "-" or "@"
C36_ServedCsvIsSafe ==
  Served =>
    \A i \in DOMAIN resp.body :
      \A col \in StringColumns : ~BeginsFormula(resp.body[i][col])

(***************************************************************************)
(* C37                                                                     *)
(***************************************************************************)
\* the usable websites an engine output holds: the text values of its
\* "website" members that are neither empty nor a placeholder
UsableWebsites(raw) ==
  {raw[i].v.v : i \in {n \in DOMAIN raw : /\ raw[n].t = "member"
                                          /\ raw[n].k = "website"
                                          /\ raw[n].v.t = "str"
                                          /\ raw[n].v.v \notin Sentinels \cup {<<>>}}}

\* C37: a lead given for a row that supplies a website, the engine call having
\* given no usable website (it timed out, it raised, or its output holds
\* none), has the supplied website as its company.website
C37_SuppliedWebsiteKept ==
  \A t \in Answered :
    (WebsiteSupplied(TheTask(t).row) /\ UsableWebsites(TheTask(t).outcome.raw) = {}) =>
      TheLead(t)["company"].website = TheTask(t).row.Website

(***************************************************************************)
(* C38                                                                     *)
(***************************************************************************)
\* the final scores the business pipeline can give
BusinessScores == {0, 20, 30, 40, 50, 60, 80, 90, 100}

\* C38: in the business pipeline the penalty is 0, 10 or 20, the phone is
\* charged only when the reconciled phone is there and the email only when the
\* reconciled email is there, the base score is never less than the penalty, so
\* that the final score is their difference, and the final score is one of 0,
\* 20, 30, 40, 50, 60, 80, 90, 100
C38_PenaltyNeverExceedsBase ==
  Reconciled =>
    /\ call.out.penalty \in {0, 10, 20}
    /\ call.out.penalty = call.phone.penalty + call.email.penalty
    /\ call.phone.penalty > 0 => call.out.company.phone # <<>>
    /\ call.email.penalty > 0 => call.out.company.email # <<>>
    /\ call.out.base_score - call.out.penalty >= 0
    /\ call.out.final_contactibility_score = call.out.base_score - call.out.penalty
    /\ call.out.final_contactibility_score \in BusinessScores

\* the closest the penalty comes to the base score: phone and email both
\* merged from a mismatch and no website, base 60, penalty 20, final 40
C38_Witness ==
  /\ Reconciled
  /\ call.out.company.website = <<>>
  /\ call.phone.penalty = 10
  /\ call.email.penalty = 10
  /\ call.out.base_score = 60
  /\ call.out.final_contactibility_score = 40

(***************************************************************************)
(* C39                                                                     *)
(***************************************************************************)
\* the entry of a job in the job store, if any
Entry(j) == IF j \in DOMAIN jobs THEN <<jobs[j]>> ELSE <<>>

\* the files this step writes: the new ones and those whose rows change
WrittenFiles == {f \in DOMAIN files' : f \notin DOMAIN files \/ files'[f] # files[f]}

\* the step is one of job j: of its submission, its orchestrator or its tasks
StepOf(j) == opc'[j] # opc[j] \/ tasks'[j] # tasks[j]

\* the completed jobs, whose entry holds an output_file
Outputs == {j \in DOMAIN jobs : "output_file" \in DOMAIN jobs[j]}

\* C39: a step that changes the entry of a job in the job store is a step of
\* that job and of no other, and changes no other entry; a step that writes a
\* file is a step of one job and writes the file named after that job's id
\* alone; and no two jobs have the same output_file
C39_JobsDoNotInterfere ==
  [][/\ \A j \in JobIds :
          Entry(j)' # Entry(j) =>
            /\ StepOf(j)
            /\ \A k \in JobIds \ {j} : ~StepOf(k) /\ Entry(k)' = Entry(k)
     /\ WrittenFiles # {} =>
          \E j \in JobIds :
            /\ StepOf(j)
            /\ WrittenFiles = {output_filename(upload[j].variant, j)}
     /\ \A j, k \in Outputs' : j # k => jobs'[j].output_file # jobs'[k].output_file]_vars

\* two jobs of the same pipeline are completed side by side, each with its
\* own artifact on disk
C39_Witness ==
  \E j, k \in JobIds :
    /\ j # k
    /\ upload[j].variant = upload[k].variant
    /\ Written(j)
    /\ Written(k)
    /\ jobs[j].output_file # jobs[k].output_file

====
